---- MODULE Spec2Model ----
(***************************************************************************)
(* Model of the routing and middleware dispatch core of                    *)
(* cloudflare-edge-toolkit (src/src/router/Router.ts).                     *)
(*                                                                         *)
(* A string is a sequence of one-character strings, so that the path       *)
(* pattern compiler (parsePath) and the regular expressions it builds are  *)
(* modelled character by character.                                        *)
(***************************************************************************)
EXTENDS Integers, Sequences, FiniteSets, TLC

\* ------------------------------------------------------------------------
\* Characters
\* ------------------------------------------------------------------------
Digits == {"0", "1", "2", "3", "4", "5", "6", "7", "8", "9"}

Letters ==
    {"a", "b", "c", "d", "e", "f", "g", "h", "i", "j", "k", "l", "m",
     "n", "o", "p", "q", "r", "s", "t", "u", "v", "w", "x", "y", "z",
     "A", "B", "C", "D", "E", "F", "G", "H", "I", "J", "K", "L", "M",
     "N", "O", "P", "Q", "R", "S", "T", "U", "V", "W", "X", "Y", "Z"}

\* the class \w of a JavaScript regular expression
WordChars == Letters \cup Digits \cup {"_"}

\* the characters "." does not match
LineTerminators == {"\n", "\r"}

SetMin(S) == CHOOSE x \in S : \A y \in S : x <= y

\* First position k >= i of s whose character is outside the class
\* (chars, neg), or Len(s)+1: the end of a greedy run such as \w+ or [^)]+.
RunEnd(s, i, chars, neg) ==
    LET stops == {k \in i..Len(s) : (s[k] \in chars) = neg}
    IN  IF stops = {} THEN Len(s) + 1 ELSE SetMin(stops)

\* Array.prototype.includes on a paramNames list
Includes(names, n) == \E k \in 1..Len(names) : names[k] = n

\* ------------------------------------------------------------------------
\* parsePath: three global replaces over the route path
\* ------------------------------------------------------------------------

\* A match of /:(\w+)\(([^)]+)\)/ starting exactly at position i of s.
ConstraintAt(s, i) ==
    LET nameEnd == RunEnd(s, i + 1, WordChars, FALSE)
        bodyEnd == RunEnd(s, nameEnd + 1, {")"}, TRUE)
        ok == /\ i <= Len(s)
              /\ s[i] = ":"
              /\ nameEnd > i + 1
              /\ nameEnd <= Len(s)
              /\ s[nameEnd] = "("
              /\ bodyEnd > nameEnd + 1
              /\ bodyEnd <= Len(s)
    IN  IF ok
        THEN [ok |-> TRUE,
              name |-> SubSeq(s, i + 1, nameEnd - 1),
              regex |-> SubSeq(s, nameEnd + 1, bodyEnd - 1),
              next |-> bodyEnd + 1]
        ELSE [ok |-> FALSE, name |-> <<>>, regex |-> <<>>, next |-> i + 1]

\* Mutant of ReplaceConstraints: the constraint is dropped, and the segment
\* compiled like a plain parameter
RECURSIVE ReplaceConstraintsAsPlain(_, _, _, _)
ReplaceConstraintsAsPlain(s, i, out, names) ==
    IF i > Len(s)
    THEN [str |-> out, names |-> names]
    ELSE LET m == ConstraintAt(s, i)
         IN  IF m.ok
             THEN ReplaceConstraintsAsPlain(
                      s, m.next,
                      out \o <<"(", "[", "^", "/", "]", "+", ")">>,
                      Append(names, m.name))
             ELSE ReplaceConstraintsAsPlain(s, i + 1, Append(out, s[i]), names)

\* patternString.replace(/:(\w+)\(([^)]+)\)/g, ...): every match, left to
\* right, pushes its name and is replaced by "(" regex ")".
RECURSIVE ReplaceConstraints(_, _, _, _)
ReplaceConstraints(s, i, out, names) ==
    IF i > Len(s)
    THEN [str |-> out, names |-> names]
    ELSE LET m == ConstraintAt(s, i)
         IN  IF m.ok
             THEN ReplaceConstraints(s, m.next,
                                     out \o <<"(">> \o m.regex \o <<")">>,
                                     Append(names, m.name))
             ELSE ReplaceConstraints(s, i + 1, Append(out, s[i]), names)

\* A match of /:(\w+)/ starting exactly at position i of s.
ParamAt(s, i) ==
    LET nameEnd == RunEnd(s, i + 1, WordChars, FALSE)
        ok == i <= Len(s) /\ s[i] = ":" /\ nameEnd > i + 1
    IN  IF ok
        THEN [ok |-> TRUE, name |-> SubSeq(s, i + 1, nameEnd - 1),
              next |-> nameEnd]
        ELSE [ok |-> FALSE, name |-> <<>>, next |-> i + 1]

PlainGroup == <<"(", "[", "^", "/", "]", "+", ")">>

\* patternString.replace(/:(\w+)/g, ...): every match, left to right, pushes
\* its name unless the list already includes it, and becomes "([^/]+)".
RECURSIVE ReplaceParams(_, _, _, _)
ReplaceParams(s, i, out, names) ==
    IF i > Len(s)
    THEN [str |-> out, names |-> names]
    ELSE LET m == ParamAt(s, i)
         IN  IF m.ok
             THEN ReplaceParams(s, m.next, out \o PlainGroup,
                                IF Includes(names, m.name)
                                THEN names
                                ELSE Append(names, m.name))
             ELSE ReplaceParams(s, i + 1, Append(out, s[i]), names)

\* patternString.replace(/\*/g, ".*")
RECURSIVE ReplaceWildcards(_, _, _)
ReplaceWildcards(s, i, out) ==
    IF i > Len(s)
    THEN out
    ELSE ReplaceWildcards(s, i + 1,
                          IF s[i] = "*"
                          THEN out \o <<".", "*">>
                          ELSE Append(out, s[i]))

\* Mutant of parsePath: the pattern is built without the anchors ^ and $
parsePathUnanchored(path) ==
    LET a == ReplaceConstraints(path, 1, <<>>, <<>>)
        b == ReplaceParams(a.str, 1, <<>>, a.names)
        c == ReplaceWildcards(b.str, 1, <<>>)
    IN  [pattern |-> c, paramNames |-> b.names]

\* Router.parsePath: the source text of the anchored RegExp, and paramNames.
parsePath(path) ==
    LET a == ReplaceConstraints(path, 1, <<>>, <<>>)
        b == ReplaceParams(a.str, 1, <<>>, a.names)
        c == ReplaceWildcards(b.str, 1, <<>>)
    IN  [pattern |-> <<"^">> \o c \o <<"$">>, paramNames |-> b.names]

\* ------------------------------------------------------------------------
\* new RegExp(source): the subset of the JavaScript pattern grammar that
\* parsePath can produce from the modelled route paths -- characters, ".",
\* the escapes \d \w and identity escapes, classes [..] and [^..] without
\* ranges, capturing groups, "|", the greedy quantifiers * + ? and the
\* assertions ^ and $.  ok = FALSE stands for a SyntaxError (or for a
\* construct outside this subset): such a route cannot be registered.
\* ------------------------------------------------------------------------
Syntax == {"^", "$", "\\", ".", "*", "+", "?", "(", ")", "[", "]", "{", "}", "|"}

Quantifiers == {"*", "+", "?"}

ParseFail == [ok |-> FALSE, node |-> [t |-> "none"], next |-> 0, g |-> 0]

EscapeOk(c) == c \in {"d", "w"} \/ c \notin WordChars

EscapeSet(c) ==
    IF c = "d" THEN Digits ELSE IF c = "w" THEN WordChars ELSE {c}

\* The members of a class, from position i up to the closing "]".
RECURSIVE ParseClassItems(_, _, _)
ParseClassItems(src, i, acc) ==
    IF i > Len(src)
    THEN [ok |-> FALSE, chars |-> {}, next |-> 0]
    ELSE IF src[i] = "]"
    THEN [ok |-> TRUE, chars |-> acc, next |-> i + 1]
    ELSE IF src[i] = "\\"
    THEN IF i + 1 <= Len(src) /\ EscapeOk(src[i + 1])
         THEN ParseClassItems(src, i + 2, acc \cup EscapeSet(src[i + 1]))
         ELSE [ok |-> FALSE, chars |-> {}, next |-> 0]
    ELSE IF src[i] = "-" /\ acc # {} /\ i + 1 <= Len(src) /\ src[i + 1] # "]"
    THEN [ok |-> FALSE, chars |-> {}, next |-> 0]
    ELSE ParseClassItems(src, i + 1, acc \cup {src[i]})

RECURSIVE ParseDisjunction(_, _, _, _)
RECURSIVE ParseAlternative(_, _, _, _)
RECURSIVE ParseTerm(_, _, _)
RECURSIVE ParseAtom(_, _, _)

ParseAtom(src, i, g) ==
    LET c == src[i]
    IN  IF c = "."
        THEN [ok |-> TRUE, next |-> i + 1, g |-> g,
              node |-> [t |-> "set", neg |-> TRUE, chars |-> LineTerminators]]
        ELSE IF c = "\\"
        THEN IF i + 1 <= Len(src) /\ EscapeOk(src[i + 1])
             THEN [ok |-> TRUE, next |-> i + 2, g |-> g,
                   node |-> [t |-> "set", neg |-> FALSE,
                             chars |-> EscapeSet(src[i + 1])]]
             ELSE ParseFail
        ELSE IF c = "["
        THEN LET neg == i + 1 <= Len(src) /\ src[i + 1] = "^"
                 Class(its) ==
                     IF its.ok
                     THEN [ok |-> TRUE, next |-> its.next, g |-> g,
                           node |-> [t |-> "set", neg |-> neg,
                                     chars |-> its.chars]]
                     ELSE ParseFail
             IN  Class(ParseClassItems(src, IF neg THEN i + 2 ELSE i + 1, {}))
        ELSE IF c = "("
        THEN IF i + 1 <= Len(src) /\ src[i + 1] = "?"
             THEN ParseFail
             ELSE LET Group(d) ==
                          IF d.ok /\ d.next <= Len(src) /\ src[d.next] = ")"
                          THEN [ok |-> TRUE, next |-> d.next + 1, g |-> d.g,
                                node |-> [t |-> "group", idx |-> g + 1,
                                          e |-> d.node]]
                          ELSE ParseFail
                  IN  Group(ParseDisjunction(src, i + 1, g + 1, <<>>))
        ELSE IF c \in Syntax \ {"]"}
        THEN ParseFail
        ELSE [ok |-> TRUE, next |-> i + 1, g |-> g,
              node |-> [t |-> "set", neg |-> FALSE, chars |-> {c}]]

ParseTerm(src, i, g) ==
    IF src[i] = "^" \/ src[i] = "$"
    THEN IF i + 1 <= Len(src) /\ src[i + 1] \in Quantifiers
         THEN ParseFail
         ELSE [ok |-> TRUE, next |-> i + 1, g |-> g,
               node |-> [t |-> IF src[i] = "^" THEN "bol" ELSE "eol"]]
    ELSE LET Quantified(a) ==
                 IF ~a.ok
                 THEN ParseFail
                 ELSE IF a.next <= Len(src) /\ src[a.next] \in Quantifiers
                 THEN IF a.next + 1 <= Len(src) /\ src[a.next + 1] = "?"
                      THEN ParseFail
                      ELSE [ok |-> TRUE, next |-> a.next + 1, g |-> a.g,
                            node |-> [t |-> "rep", e |-> a.node,
                                      min |-> IF src[a.next] = "+" THEN 1 ELSE 0,
                                      many |-> src[a.next] # "?"]]
                 ELSE a
         IN  Quantified(ParseAtom(src, i, g))

ParseAlternative(src, i, g, acc) ==
    IF i > Len(src) \/ src[i] = "|" \/ src[i] = ")"
    THEN [ok |-> TRUE, next |-> i, g |-> g, node |-> [t |-> "cat", es |-> acc]]
    ELSE LET Then(r) ==
                 IF r.ok
                 THEN ParseAlternative(src, r.next, r.g, Append(acc, r.node))
                 ELSE ParseFail
         IN  Then(ParseTerm(src, i, g))

ParseDisjunction(src, i, g, acc) ==
    LET Then(a) ==
            IF ~a.ok
            THEN ParseFail
            ELSE IF a.next <= Len(src) /\ src[a.next] = "|"
            THEN ParseDisjunction(src, a.next + 1, a.g, Append(acc, a.node))
            ELSE [ok |-> TRUE, next |-> a.next, g |-> a.g,
                  node |-> [t |-> "alt", es |-> Append(acc, a.node)]]
    IN  Then(ParseAlternative(src, i, g, <<>>))

\* new RegExp(source)
RegExpOf(source) ==
    LET Compiled(d) ==
            IF d.ok /\ d.next = Len(source) + 1
            THEN [source |-> source, ok |-> TRUE, node |-> d.node,
                  groups |-> d.g]
            ELSE [source |-> source, ok |-> FALSE, node |-> [t |-> "none"],
                  groups |-> 0]
    IN  Compiled(ParseDisjunction(source, 1, 0, <<>>))

\* ------------------------------------------------------------------------
\* Matching: the backtracking matcher of the language.  MatchNode gives the
\* ways node can match s from position j, in the order the engine tries
\* them; a capture is <<>> (undefined) or <<text>>.
\* ------------------------------------------------------------------------
RECURSIVE GroupsIn(_)
GroupsIn(node) ==
    IF node.t = "group" THEN {node.idx} \cup GroupsIn(node.e)
    ELSE IF node.t = "rep" THEN GroupsIn(node.e)
    ELSE IF node.t \in {"cat", "alt"}
    THEN UNION {GroupsIn(node.es[k]) : k \in 1..Len(node.es)}
    ELSE {}

RECURSIVE MatchNode(_, _, _, _)
RECURSIVE MatchCat(_, _, _, _, _)
RECURSIVE ThenCat(_, _, _, _, _)
RECURSIVE MatchAlt(_, _, _, _, _)
RECURSIVE MatchRep(_, _, _, _, _)
RECURSIVE ThenRep(_, _, _, _, _, _)

MatchCat(es, k, s, j, caps) ==
    IF k > Len(es)
    THEN <<[pos |-> j, caps |-> caps]>>
    ELSE ThenCat(MatchNode(es[k], s, j, caps), 1, es, k + 1, s)

ThenCat(outs, n, es, k, s) ==
    IF n > Len(outs)
    THEN <<>>
    ELSE MatchCat(es, k, s, outs[n].pos, outs[n].caps)
            \o ThenCat(outs, n + 1, es, k, s)

MatchAlt(es, k, s, j, caps) ==
    IF k > Len(es)
    THEN <<>>
    ELSE MatchNode(es[k], s, j, caps) \o MatchAlt(es, k + 1, s, j, caps)

\* Greedy repetition: one more iteration first, stopping second.  An
\* iteration starts with the captures of the body reset, and once the
\* minimum is reached an iteration that consumes nothing is rejected.
MatchRep(node, min, s, j, caps) ==
    LET inner == GroupsIn(node.e)
        reset == [g \in DOMAIN caps |-> IF g \in inner THEN <<>> ELSE caps[g]]
        once == MatchNode(node.e, s, j, reset)
    IN  ThenRep(once, 1, node, min, s, j)
            \o (IF min = 0 THEN <<[pos |-> j, caps |-> caps]>> ELSE <<>>)

ThenRep(outs, n, node, min, s, j) ==
    IF n > Len(outs)
    THEN <<>>
    ELSE LET o == outs[n]
             left == IF min > 0 THEN min - 1 ELSE 0
         IN  (IF min = 0 /\ o.pos = j
              THEN <<>>
              ELSE IF node.many
              THEN MatchRep(node, left, s, o.pos, o.caps)
              ELSE <<o>>)
                \o ThenRep(outs, n + 1, node, min, s, j)

MatchNode(node, s, j, caps) ==
    IF node.t = "set"
    THEN IF j <= Len(s) /\ ((s[j] \in node.chars) # node.neg)
         THEN <<[pos |-> j + 1, caps |-> caps]>>
         ELSE <<>>
    ELSE IF node.t = "bol"
    THEN IF j = 1 THEN <<[pos |-> j, caps |-> caps]>> ELSE <<>>
    ELSE IF node.t = "eol"
    THEN IF j = Len(s) + 1 THEN <<[pos |-> j, caps |-> caps]>> ELSE <<>>
    ELSE IF node.t = "group"
    THEN LET r == MatchNode(node.e, s, j, caps)
         IN  [k \in 1..Len(r) |->
                [pos |-> r[k].pos,
                 caps |-> [r[k].caps EXCEPT
                              ![node.idx] = <<SubSeq(s, j, r[k].pos - 1)>>]]]
    ELSE IF node.t = "rep"
    THEN MatchRep(node, node.min, s, j, caps)
    ELSE IF node.t = "cat"
    THEN MatchCat(node.es, 1, s, j, caps)
    ELSE IF node.t = "alt"
    THEN MatchAlt(node.es, 1, s, j, caps)
    ELSE <<>>

\* RegExp.prototype.exec without the g flag: the first start position, and
\* there the first way, at which the pattern matches.
RECURSIVE ExecFrom(_, _, _)
ExecFrom(re, s, start) ==
    IF start > Len(s) + 1
    THEN [matched |-> FALSE, caps |-> <<>>]
    ELSE LET outs == MatchNode(re.node, s, start, [g \in 1..re.groups |-> <<>>])
         IN  IF outs # <<>>
             THEN [matched |-> TRUE, caps |-> outs[1].caps]
             ELSE ExecFrom(re, s, start + 1)

\* pattern.test(pathname), pattern a RegExp object
Test(pattern, pathname) == ExecFrom(pattern, pathname, 1).matched

\* pathname.match(pattern)
Match(pattern, pathname) == ExecFrom(pattern, pathname, 1)

\* ------------------------------------------------------------------------
\* The router
\* ------------------------------------------------------------------------
VARIABLES
    routes,            \* Router.routes of the application router
    globalMiddleware,  \* Router.globalMiddleware
    notFoundHandler,   \* Router.notFoundHandler (NoHandler = null)
    errorHandler,      \* Router.errorHandler (NoHandler = null)
    subRoutes,         \* routes of a second Router, mounted with use(path, router)
    groups,            \* the RouteGroup objects created so far
    pc,                \* where the call of handle in progress stands
    request,           \* its request: method and url.pathname
    params,            \* request.params, <<>> while unset, else <<mapping>>
    route,             \* index in routes of the route findRoute returned, 0 = null
    idx,               \* position in the loop over middleware or handlers
    error,             \* the value caught by the catch clause of handle
    result,            \* what handle gave its caller
    calls,             \* the handler invocations of this call, in order
    inFlight,          \* the calls of handle in progress at the same time
    objects,           \* params and query of the Request objects they were given
    store,             \* MemoryStore.store of the rate limiter
    kv,                \* the KV namespace of the KV rate limiter
    now,               \* Date.now()
    invocations,       \* the invocations of a middleware of the toolkit
    subRouter,         \* globalMiddleware and fallback handlers of the second Router
    mounting,          \* the call use(path, router) in progress
    database,          \* the D1 database of the MigrationRunner
    runner             \* the call of MigrationRunner.up or down in progress

routerVars == <<routes, globalMiddleware, notFoundHandler, errorHandler,
                subRoutes, groups>>

handleVars == <<pc, request, params, route, idx, error, result, calls>>

\* what the concurrent dispatches hold
concurrentVars == <<inFlight, objects>>

\* what the middleware of the toolkit holds
middlewareVars == <<store, kv, now, invocations>>

\* what mounting in steps and the migrations hold
laterVars == <<subRouter, mounting, database, runner>>

vars == <<routes, globalMiddleware, notFoundHandler, errorHandler, subRoutes,
          groups, pc, request, params, route, idx, error, result, calls,
          inFlight, objects, store, kv, now, invocations,
          subRouter, mounting, database, runner>>

\* Bounds of the model
MaxHandlers == 4
MaxChain == 2
MaxRoutes == 2
MaxGroups == 1
MaxSubRoutes == 1

\* A handler function is identified by the registration it was passed to:
\* src names the call, i its target (route index, group index) and j the
\* position among the functions passed.
Fn(src, i, j) == [src |-> src, i |-> i, j |-> j]

NoHandler == Fn("null", 0, 0)

\* Paths of the registrations and requests of the dispatch model
Slash == <<"/">>
PathU == <<"/", "u">>
PathId == <<"/", ":", "i", "d">>
PathMe == <<"/", "m", "e">>
Path42 == <<"/", "4", "2">>
PathX == <<"/", "x">>

\* what the registration calls of the model are given
RouteKinds ==
    {[method |-> "GET", path |-> PathU \o PathId],
     [method |-> "*", path |-> PathU \o PathMe]}

RelKinds ==
    {[method |-> "GET", path |-> PathId],
     [method |-> "*", path |-> PathMe]}

Prefixes == {PathU}

\* the requests of the model
Requests ==
    {[method |-> "GET", pathname |-> PathU \o PathMe],
     [method |-> "GET", pathname |-> PathU \o Path42],
     [method |-> "POST", pathname |-> PathU \o PathMe],
     [method |-> "GET", pathname |-> PathX]}

RECURSIVE ChainTotal(_, _)
ChainTotal(table, k) ==
    IF k > Len(table) THEN 0 ELSE Len(table[k].handlers) + ChainTotal(table, k + 1)

RECURSIVE GroupTotal(_, _)
GroupTotal(gs, k) ==
    IF k > Len(gs) THEN 0 ELSE Len(gs[k].groupMiddleware) + GroupTotal(gs, k + 1)

\* the number of handler functions the routers and groups hold
HandlerCount ==
    Len(globalMiddleware) + ChainTotal(routes, 1) + ChainTotal(subRoutes, 1)
        + GroupTotal(groups, 1)
        + (IF notFoundHandler = NoHandler THEN 0 ELSE 1)
        + (IF errorHandler = NoHandler THEN 0 ELSE 1)

\* registrations happen between requests, and add at most n functions
CanRegister(n) == pc = "idle" /\ HandlerCount + n <= MaxHandlers

\* Route record built by addRoute: pattern is the RegExp object
RouteOf(method, path, handlers) ==
    LET c == parsePath(path)
    IN  [method |-> method, path |-> path, pattern |-> RegExpOf(c.pattern),
         paramNames |-> c.paramNames, handlers |-> handlers]

\* Mutant of addRoute: the paramNames array is one array kept between the
\* calls of parsePath, so a route also gets the names of the one before
addRouteSharedNames(table, method, path, handlers) ==
    Append(table,
           [RouteOf(method, path, handlers) EXCEPT !.paramNames =
               (IF table = <<>> THEN <<>> ELSE table[Len(table)].paramNames) \o @])

\* Router.addRoute
addRoute(table, method, path, handlers) ==
    Append(table, RouteOf(method, path, handlers))

\* new RegExp throws on an invalid pattern, before the push
CanAddRoute(table, path) ==
    Len(table) < MaxRoutes /\ RegExpOf(parsePath(path).pattern).ok

\* Router.get / post / ... / all, given one of kinds
RegisterAmong(kinds, held, budget) ==
    \E k \in kinds, n \in 1..MaxChain :
        /\ pc = "idle"
        /\ held + n <= budget
        /\ CanAddRoute(routes, k.path)
        /\ routes' = addRoute(routes, k.method, k.path,
                              [j \in 1..n |-> Fn("route", Len(routes) + 1, j)])
        /\ UNCHANGED <<globalMiddleware, notFoundHandler, errorHandler,
                       subRoutes, groups>>
        /\ UNCHANGED <<handleVars, concurrentVars, middlewareVars, laterVars>>

Register == RegisterAmong(RouteKinds, HandlerCount, MaxHandlers)

\* Router.use(...handlers)
useWithin(held, budget) ==
    \E n \in 1..MaxChain :
        /\ pc = "idle"
        /\ held + n <= budget
        /\ globalMiddleware' = globalMiddleware
              \o [j \in 1..n |-> Fn("use", 0, Len(globalMiddleware) + j)]
        /\ UNCHANGED <<routes, notFoundHandler, errorHandler, subRoutes, groups>>
        /\ UNCHANGED <<handleVars, concurrentVars, middlewareVars, laterVars>>

use == useWithin(HandlerCount, MaxHandlers)

\* Router.on404
on404 ==
    /\ notFoundHandler = NoHandler
    /\ CanRegister(1)
    /\ notFoundHandler' = Fn("on404", 0, 1)
    /\ UNCHANGED <<routes, globalMiddleware, errorHandler, subRoutes, groups>>
    /\ UNCHANGED <<handleVars, concurrentVars, middlewareVars, laterVars>>

\* Router.onError
onError ==
    /\ errorHandler = NoHandler
    /\ CanRegister(1)
    /\ errorHandler' = Fn("onError", 0, 1)
    /\ UNCHANGED <<routes, globalMiddleware, notFoundHandler, subRoutes, groups>>
    /\ UNCHANGED <<handleVars, concurrentVars, middlewareVars, laterVars>>

\* the handler functions held anywhere, each counted once
RECURSIVE FunctionsOf(_, _)
FunctionsOf(table, k) ==
    IF k > Len(table)
    THEN {}
    ELSE {table[k].handlers[j] : j \in 1..Len(table[k].handlers)}
            \cup FunctionsOf(table, k + 1)

FunctionCount ==
    Cardinality(({globalMiddleware[j] : j \in 1..Len(globalMiddleware)}
                 \cup FunctionsOf(routes, 1)
                 \cup FunctionsOf(subRoutes, 1)
                 \cup UNION {{groups[g].groupMiddleware[j] :
                                j \in 1..Len(groups[g].groupMiddleware)} :
                             g \in 1..Len(groups)}
                 \cup {notFoundHandler, errorHandler})
                \ {NoHandler})

\* The record of a RouteGroup: prefix and groupMiddleware are its fields;
\* parent (0 = the router), own (the prefix passed to the call) and at (the
\* length of the parent's groupMiddleware when the call was made) are no
\* fields of the object: they keep the call that created it.
GroupOf(prefix, groupMiddleware, parent, own, at) ==
    [prefix |-> prefix, groupMiddleware |-> groupMiddleware,
     parent |-> parent, own |-> own, at |-> at]

\* Mutant of groupAmong: the prefix of the nested group is put before the
\* prefix of its parent
groupAmongInnerFirst(given, max, held, budget) ==
    \E c \in given :
        /\ pc = "idle"
        /\ held + c.n <= budget
        /\ Len(groups) < max
        /\ LET own == [j \in 1..c.n |-> Fn("group", Len(groups) + 1, j)]
               parent == c.parent
               prefix == c.prefix
           IN  groups' = Append(groups,
                  IF parent = 0
                  THEN GroupOf(prefix, own, 0, prefix, 0)
                  ELSE GroupOf(prefix \o groups[parent].prefix,
                               groups[parent].groupMiddleware \o own,
                               parent, prefix,
                               Len(groups[parent].groupMiddleware)))
        /\ UNCHANGED <<routes, globalMiddleware, notFoundHandler, errorHandler,
                       subRoutes>>
        /\ UNCHANGED <<handleVars, concurrentVars, middlewareVars, laterVars>>

\* Router.group and RouteGroup.group: a new RouteGroup whose prefix and
\* middleware extend those of its parent (parent 0 = the router itself).
\* given holds the calls to choose from: the parent, the prefix and the
\* number of middleware functions passed; held is the count of handler
\* functions the guard keeps within budget.
groupAmong(given, max, held, budget) ==
    \E c \in given :
        /\ pc = "idle"
        /\ held + c.n <= budget
        /\ Len(groups) < max
        /\ LET own == [j \in 1..c.n |-> Fn("group", Len(groups) + 1, j)]
               parent == c.parent
               prefix == c.prefix
           IN  groups' = Append(groups,
                  IF parent = 0
                  THEN GroupOf(prefix, own, 0, prefix, 0)
                  ELSE GroupOf(groups[parent].prefix \o prefix,
                               groups[parent].groupMiddleware \o own,
                               parent, prefix,
                               Len(groups[parent].groupMiddleware)))
        /\ UNCHANGED <<routes, globalMiddleware, notFoundHandler, errorHandler,
                       subRoutes>>
        /\ UNCHANGED <<handleVars, concurrentVars, middlewareVars, laterVars>>

\* the group calls of the composed table: on the router or on any group
GroupCalls ==
    {[parent |-> p, prefix |-> x, n |-> n] :
        p \in 0..Len(groups), x \in Prefixes, n \in 0..1}

group == groupAmong(GroupCalls, MaxGroups, HandlerCount, MaxHandlers)

\* Mutant of groupUseWithin: a nested group holds the array of its parent,
\* so what use pushes on a group is pushed on the groups made from it
groupUseWithinAliased(held, budget) ==
    \E g \in 1..Len(groups) :
        /\ pc = "idle"
        /\ held + 1 <= budget
        /\ groups' = [x \in 1..Len(groups) |->
                        IF x = g \/ groups[x].parent = g
                        THEN [groups[x] EXCEPT !.groupMiddleware =
                                Append(@, Fn("groupUse", g,
                                             Len(groups[g].groupMiddleware) + 1))]
                        ELSE groups[x]]
        /\ UNCHANGED <<routes, globalMiddleware, notFoundHandler, errorHandler,
                       subRoutes>>
        /\ UNCHANGED <<handleVars, concurrentVars, middlewareVars, laterVars>>

\* RouteGroup.use
groupUseWithin(held, budget) ==
    \E g \in 1..Len(groups) :
        /\ pc = "idle"
        /\ held + 1 <= budget
        /\ groups' = [groups EXCEPT ![g].groupMiddleware =
                         Append(@, Fn("groupUse", g, Len(@) + 1))]
        /\ UNCHANGED <<routes, globalMiddleware, notFoundHandler, errorHandler,
                       subRoutes>>
        /\ UNCHANGED <<handleVars, concurrentVars, middlewareVars, laterVars>>

groupUse == groupUseWithin(HandlerCount, MaxHandlers)

\* Mutant of groupRegisterWithin: the handlers passed to the call are put
\* before the middleware of the group
groupRegisterHandlersFirst(held, budget) ==
    \E g \in 1..Len(groups), k \in RelKinds :
        /\ pc = "idle"
        /\ held + 1 <= budget
        /\ CanAddRoute(routes, groups[g].prefix \o k.path)
        /\ routes' = addRoute(routes, k.method, groups[g].prefix \o k.path,
                              <<Fn("groupRoute", g, Len(routes) + 1)>>
                                  \o groups[g].groupMiddleware)
        /\ UNCHANGED <<globalMiddleware, notFoundHandler, errorHandler,
                       subRoutes, groups>>
        /\ UNCHANGED <<handleVars, concurrentVars, middlewareVars, laterVars>>

\* RouteGroup.get / post / ... / all; the function passed is identified by
\* the group and the position of the route
groupRegisterWithin(held, budget) ==
    \E g \in 1..Len(groups), k \in RelKinds :
        /\ pc = "idle"
        /\ held + 1 <= budget
        /\ CanAddRoute(routes, groups[g].prefix \o k.path)
        /\ routes' = addRoute(routes, k.method, groups[g].prefix \o k.path,
                              groups[g].groupMiddleware
                                  \o <<Fn("groupRoute", g, Len(routes) + 1)>>)
        /\ UNCHANGED <<globalMiddleware, notFoundHandler, errorHandler,
                       subRoutes, groups>>
        /\ UNCHANGED <<handleVars, concurrentVars, middlewareVars, laterVars>>

groupRegister == groupRegisterWithin(HandlerCount, MaxHandlers)

\* Mutant of subRegisterAmong: the mount is a live link, and a route
\* registered on the second router after the mount shows in the table of
\* the first
subRegisterLive(kinds, max, held, budget) ==
    \E k \in kinds, n \in 1..MaxChain :
        /\ pc = "idle"
        /\ held + n <= budget
        /\ CanAddRoute(subRoutes, k.path)
        /\ Len(subRoutes) < max
        /\ LET hs == [j \in 1..n |-> Fn("sub", Len(subRoutes) + 1, j)]
           IN  /\ subRoutes' = addRoute(subRoutes, k.method, k.path, hs)
               /\ routes' =
                    IF \E m \in 1..Len(routes) : routes[m].handlers[1].src = "sub"
                    THEN addRoute(routes, k.method, PathU \o k.path, hs)
                    ELSE routes
        /\ UNCHANGED <<globalMiddleware, notFoundHandler, errorHandler, groups>>
        /\ UNCHANGED <<handleVars, concurrentVars, middlewareVars, laterVars>>

\* get / post / ... / all on the second router, with up to MaxChain handlers
subRegisterAmong(kinds, max, held, budget) ==
    \E k \in kinds, n \in 1..MaxChain :
        /\ pc = "idle"
        /\ held + n <= budget
        /\ CanAddRoute(subRoutes, k.path)
        /\ Len(subRoutes) < max
        /\ subRoutes' = addRoute(subRoutes, k.method, k.path,
                                 [j \in 1..n |-> Fn("sub", Len(subRoutes) + 1, j)])
        /\ UNCHANGED <<routes, globalMiddleware, notFoundHandler, errorHandler,
                       groups>>
        /\ UNCHANGED <<handleVars, concurrentVars, middlewareVars, laterVars>>

\* get / post / ... / all on the second router, with one handler
subRegister ==
    \E k \in RelKinds :
        /\ CanRegister(1)
        /\ CanAddRoute(subRoutes, k.path)
        /\ Len(subRoutes) < MaxSubRoutes
        /\ subRoutes' = addRoute(subRoutes, k.method, k.path,
                                 <<Fn("sub", Len(subRoutes) + 1, 1)>>)
        /\ UNCHANGED <<routes, globalMiddleware, notFoundHandler, errorHandler,
                       groups>>
        /\ UNCHANGED <<handleVars, concurrentVars, middlewareVars, laterVars>>

\* Mutant of MountAll: the routes of the mounted router are taken last first
RECURSIVE MountAllReversed(_, _, _, _)
MountAllReversed(table, prefix, from, k) ==
    IF k > Len(from)
    THEN table
    ELSE addRoute(MountAllReversed(table, prefix, from, k + 1),
                  from[k].method, prefix \o from[k].path, from[k].handlers)

\* Router.use(path, router): addRoute for every route of the mounted router
RECURSIVE MountAll(_, _, _, _)
MountAll(table, prefix, from, k) ==
    IF k > Len(from)
    THEN table
    ELSE MountAll(addRoute(table, from[k].method, prefix \o from[k].path,
                           from[k].handlers),
                  prefix, from, k + 1)

\* Mutant of mountWithin: the mount also takes over the global middleware
\* and the error handler of the second router
mountWithinCarrying(limit, heldAfter, budget) ==
    \E prefix \in Prefixes :
        /\ pc = "idle"
        /\ subRoutes # <<>>
        /\ Len(routes) + Len(subRoutes) <= limit
        /\ heldAfter <= budget
        /\ routes' = MountAll(routes, prefix, subRoutes, 1)
        /\ globalMiddleware' = globalMiddleware \o subRouter.globalMiddleware
        /\ errorHandler' = IF subRouter.errorHandler # NoHandler
                           THEN subRouter.errorHandler
                           ELSE errorHandler
        /\ UNCHANGED <<notFoundHandler, subRoutes, groups>>
        /\ UNCHANGED <<handleVars, concurrentVars, middlewareVars, laterVars>>

\* Router.use(path, router) while the table of the router holds at most
\* limit routes afterwards and heldAfter handlers are within budget
mountWithin(limit, heldAfter, budget) ==
    \E prefix \in Prefixes :
        /\ pc = "idle"
        /\ subRoutes # <<>>
        /\ Len(routes) + Len(subRoutes) <= limit
        /\ heldAfter <= budget
        /\ routes' = MountAll(routes, prefix, subRoutes, 1)
        /\ UNCHANGED <<globalMiddleware, notFoundHandler, errorHandler,
                       subRoutes, groups>>
        /\ UNCHANGED <<handleVars, concurrentVars, middlewareVars, laterVars>>

mount ==
    mountWithin(MaxRoutes, HandlerCount + ChainTotal(subRoutes, 1), MaxHandlers)

\* ------------------------------------------------------------------------
\* Handlers are opaque: what a handler does with a request is any of
\* returning nothing, returning a Response, throwing an Error, or throwing
\* a value that is no Error.
\* ------------------------------------------------------------------------
NoThrow == [isError |-> FALSE, id |-> 0, message |-> ""]

\* Thrown values: two Error objects (one with an empty message) and a
\* string; message is error.message, or String(value) for the string.
Throwables ==
    {[isError |-> TRUE, id |-> 1, message |-> "boom"],
     [isError |-> TRUE, id |-> 2, message |-> ""],
     [isError |-> FALSE, id |-> 3, message |-> "oops"]}

Outcomes ==
    {[kind |-> "none", thrown |-> NoThrow],
     [kind |-> "respond", thrown |-> NoThrow]}
        \cup {[kind |-> "throw", thrown |-> t] : t \in Throwables}

\* what the not-found handler and the error handler may do
FallbackOutcomes == {o \in Outcomes : o.thrown.id \in {0, 1}}

\* Mutant of ToError: every thrown value is wrapped in a new Error
ToErrorWraps(t) == [isError |-> TRUE, id |-> 0, message |-> t.message]

\* error instanceof Error ? error : new Error(String(error)); the new Error
\* object has identity 0
ToError(t) ==
    IF t.isError THEN t ELSE [isError |-> TRUE, id |-> 0, message |-> t.message]

NoResponse == [by |-> NoHandler, status |-> 0, body |-> ""]

\* the Response a handler returns; by = NoHandler marks a Response the
\* router builds itself
ResponseOf(h) == [by |-> h, status |-> 200, body |-> ""]

\* Mutant of DefaultNotFound: the status option left out
DefaultNotFoundNoStatus == [by |-> NoHandler, status |-> 200, body |-> "Not Found"]

\* new Response("Not Found", { status: 404 })
DefaultNotFound == [by |-> NoHandler, status |-> 404, body |-> "Not Found"]

\* Mutant of DefaultError: the message of the error is not used
DefaultErrorGeneric(e) ==
    [by |-> NoHandler, status |-> 500, body |-> "Internal Server Error"]

\* new Response(JSON.stringify({ error: error.message || "Internal Server
\* Error" }), { status: 500, ... })
DefaultError(e) ==
    [by |-> NoHandler, status |-> 500,
     body |-> IF e.message # "" THEN e.message ELSE "Internal Server Error"]

NoResult == [kind |-> "none", response |-> NoResponse, error |-> NoThrow]
Responded(r) == [kind |-> "response", response |-> r, error |-> NoThrow]
Rejected(e) == [kind |-> "rejected", response |-> NoResponse, error |-> e]

EmptyParams == [n \in {} |-> <<>>]

\* Mutant of findRoute: the last accepting route instead of the first
findRouteLast(method, pathname) ==
    LET hits == {k \in 1..Len(routes) :
                    /\ (routes[k].method = method \/ routes[k].method = "*")
                    /\ Test(routes[k].pattern, pathname)}
    IN  IF hits = {} THEN 0 ELSE CHOOSE x \in hits : \A y \in hits : x >= y

\* Router.findRoute: index of the first route that accepts, 0 for null
findRoute(method, pathname) ==
    LET hits == {k \in 1..Len(routes) :
                    /\ (routes[k].method = method \/ routes[k].method = "*")
                    /\ Test(routes[k].pattern, pathname)}
    IN  IF hits = {} THEN 0 ELSE SetMin(hits)

SetMax(S) == CHOOSE x \in S : \A y \in S : x >= y

\* the value undefined of JavaScript, which is no string
Undefined == <<"undefined">>

\* Mutant of ParamsOf: match[i + 1] is stored as it is, without || ""
ParamsOfRaw(paramNames, pattern, pathname) ==
    LET m == Match(pattern, pathname)
        val(i) == IF i <= Len(m.caps) /\ m.caps[i] # <<>>
                  THEN m.caps[i][1]
                  ELSE Undefined
        names == {paramNames[i] : i \in 1..Len(paramNames)}
    IN  IF ~m.matched
        THEN EmptyParams
        ELSE [n \in names |->
                val(SetMax({i \in 1..Len(paramNames) : paramNames[i] = n}))]

\* Router.extractParams: params[paramNames[i]] = match[i + 1] || "", for
\* i = 0, 1, ... in turn, so a later entry of the same name overwrites
ParamsOf(paramNames, pattern, pathname) ==
    LET m == Match(pattern, pathname)
        val(i) == IF i <= Len(m.caps) /\ m.caps[i] # <<>>
                  THEN m.caps[i][1]
                  ELSE <<>>
        names == {paramNames[i] : i \in 1..Len(paramNames)}
    IN  IF ~m.matched
        THEN EmptyParams
        ELSE [n \in names |->
                val(SetMax({i \in 1..Len(paramNames) : paramNames[i] = n}))]

extractParams(r, pathname) == ParamsOf(r.paramNames, r.pattern, pathname)

Call(h, role, o) ==
    [handler |-> h, role |-> role, params |-> params', error |-> error,
     outcome |-> o.kind, thrown |-> o.thrown]

\* Mutant of BeginWith: the first global middleware is called before the
\* routing, so also for a request no route accepts
BeginWithMiddlewareFirst(requests) ==
    \E r \in requests :
        /\ pc = "idle"
        /\ request' = r
        /\ route' = findRoute(r.method, r.pathname)
        /\ IF route' = 0
           THEN /\ pc' = "notFound"
                /\ params' = <<>>
                /\ calls' = IF globalMiddleware = <<>> THEN <<>>
                            ELSE <<Call(globalMiddleware[1], "middleware",
                                        [kind |-> "none", thrown |-> NoThrow])>>
           ELSE /\ pc' = "global"
                /\ params' = <<extractParams(routes[route'], r.pathname)>>
                /\ calls' = <<>>
        /\ idx' = 1
        /\ error' = NoThrow
        /\ result' = NoResult
        /\ UNCHANGED <<routerVars, concurrentVars, middlewareVars, laterVars>>

\* handle, lines 286-301: routing, and on a match the params of the request
BeginWith(requests) ==
    \E r \in requests :
        /\ pc = "idle"
        /\ request' = r
        /\ route' = findRoute(r.method, r.pathname)
        /\ IF route' = 0
           THEN pc' = "notFound" /\ params' = <<>>
           ELSE /\ pc' = "global"
                /\ params' = <<extractParams(routes[route'], r.pathname)>>
        /\ idx' = 1
        /\ error' = NoThrow
        /\ result' = NoResult
        /\ calls' = <<>>
        /\ UNCHANGED <<routerVars, concurrentVars, middlewareVars, laterVars>>

Begin == BeginWith(Requests)

\* Mutant of Truthy: the test of the result inverted
TruthyInverted(o) == o.kind = "none"

\* if (response): a Response is truthy, undefined is not
Truthy(o) == o.kind = "respond"

\* Mutant of Walk: a throw of the handler is swallowed and the loop goes on
WalkSwallowsThrow(chain, role, here, after) ==
    IF idx > Len(chain)
    THEN /\ pc' = after
         /\ idx' = 1
         /\ UNCHANGED <<params, error, result, calls>>
    ELSE \E o \in Outcomes :
         /\ params' = params
         /\ calls' = Append(calls, Call(chain[idx], role, o))
         /\ IF o.kind = "respond"
            THEN /\ pc' = "done"
                 /\ idx' = idx
                 /\ result' = Responded(ResponseOf(chain[idx]))
                 /\ UNCHANGED error
            ELSE /\ pc' = here
                 /\ idx' = idx + 1
                 /\ UNCHANGED <<error, result>>

\* One turn of a loop "for (const h of chain) { const response = await h(..);
\* if (response) return response; }" inside the try block of handle: the
\* call of chain[idx], or the end of the loop.
Walk(chain, role, here, after) ==
    IF idx > Len(chain)
    THEN /\ pc' = after
         /\ idx' = 1
         /\ UNCHANGED <<params, error, result, calls>>
    ELSE \E o \in Outcomes :
         /\ params' = params
         /\ calls' = Append(calls, Call(chain[idx], role, o))
         /\ IF o.kind = "throw"
            THEN /\ pc' = "error"
                 /\ idx' = idx
                 /\ error' = ToError(o.thrown)
                 /\ UNCHANGED result
            ELSE IF Truthy(o)
            THEN /\ pc' = "done"
                 /\ idx' = idx
                 /\ result' = Responded(ResponseOf(chain[idx]))
                 /\ UNCHANGED error
            ELSE /\ pc' = here
                 /\ idx' = idx + 1
                 /\ UNCHANGED <<error, result>>

\* Mutant of Global: the global middleware is not run for a route that
\* came from a mounted router
GlobalSkipsMounted ==
    /\ pc = "global"
    /\ IF routes[route].handlers[1].src = "sub"
       THEN /\ pc' = "route"
            /\ idx' = 1
            /\ UNCHANGED <<params, error, result, calls>>
       ELSE Walk(globalMiddleware, "middleware", "global", "route")
    /\ UNCHANGED <<request, route>>
    /\ UNCHANGED <<routerVars, concurrentVars, middlewareVars, laterVars>>

\* handle, lines 304-309: the loop over globalMiddleware
Global ==
    /\ pc = "global"
    /\ Walk(globalMiddleware, "middleware", "global", "route")
    /\ UNCHANGED <<request, route>>
    /\ UNCHANGED <<routerVars, concurrentVars, middlewareVars, laterVars>>

\* Mutant of Handlers: when the handlers of the route all returned nothing,
\* the next route that accepts the request is tried
HandlersTryNextRoute ==
    /\ pc = "route"
    /\ LET later == {k \in (route + 1)..Len(routes) :
                        /\ (routes[k].method = request.method
                              \/ routes[k].method = "*")
                        /\ Test(routes[k].pattern, request.pathname)}
       IN  IF idx > Len(routes[route].handlers) /\ later # {}
           THEN /\ route' = SetMin(later)
                /\ idx' = 1
                /\ UNCHANGED <<pc, params, error, result, calls>>
           ELSE /\ Walk(routes[route].handlers, "handler", "route", "notFound")
                /\ UNCHANGED route
    /\ UNCHANGED request
    /\ UNCHANGED <<routerVars, concurrentVars, middlewareVars, laterVars>>

\* handle, lines 312-320: the loop over route.handlers, then handleNotFound
Handlers ==
    /\ pc = "route"
    /\ Walk(routes[route].handlers, "handler", "route", "notFound")
    /\ UNCHANGED <<request, route>>
    /\ UNCHANGED <<routerVars, concurrentVars, middlewareVars, laterVars>>

\* Mutant of handleNotFound: returned without await, so that what the
\* not-found handler throws is not caught by handle
handleNotFoundNotAwaited ==
    /\ pc = "notFound"
    /\ IF notFoundHandler # NoHandler
       THEN \E o \in FallbackOutcomes :
            /\ params' = <<EmptyParams>>
            /\ calls' = Append(calls, Call(notFoundHandler, "notFound", o))
            /\ pc' = "done"
            /\ UNCHANGED error
            /\ IF o.kind = "throw"
               THEN result' = Rejected(o.thrown)
               ELSE IF Truthy(o)
               THEN result' = Responded(ResponseOf(notFoundHandler))
               ELSE result' = Responded(DefaultNotFound)
       ELSE /\ pc' = "done"
            /\ result' = Responded(DefaultNotFound)
            /\ UNCHANGED <<params, error, calls>>
    /\ UNCHANGED <<request, route, idx>>
    /\ UNCHANGED <<routerVars, concurrentVars, middlewareVars, laterVars>>

\* Router.handleNotFound, awaited inside the try block of handle, so that
\* what the not-found handler throws reaches the catch clause
handleNotFound ==
    /\ pc = "notFound"
    /\ IF notFoundHandler # NoHandler
       THEN \E o \in FallbackOutcomes :
            /\ params' = <<EmptyParams>>
            /\ calls' = Append(calls, Call(notFoundHandler, "notFound", o))
            /\ IF o.kind = "throw"
               THEN /\ pc' = "error"
                    /\ error' = ToError(o.thrown)
                    /\ UNCHANGED result
               ELSE IF Truthy(o)
               THEN /\ pc' = "done"
                    /\ result' = Responded(ResponseOf(notFoundHandler))
                    /\ UNCHANGED error
               ELSE /\ pc' = "done"
                    /\ result' = Responded(DefaultNotFound)
                    /\ UNCHANGED error
       ELSE /\ pc' = "done"
            /\ result' = Responded(DefaultNotFound)
            /\ UNCHANGED <<params, error, calls>>
    /\ UNCHANGED <<request, route, idx>>
    /\ UNCHANGED <<routerVars, concurrentVars, middlewareVars, laterVars>>

\* Router.handleError, returned from the catch clause of handle: what the
\* error handler throws rejects the promise handle returned
handleError ==
    /\ pc = "error"
    /\ IF errorHandler # NoHandler
       THEN \E o \in FallbackOutcomes :
            /\ params' = <<EmptyParams>>
            /\ calls' = Append(calls, Call(errorHandler, "error", o))
            /\ pc' = "done"
            /\ IF o.kind = "throw"
               THEN result' = Rejected(o.thrown)
               ELSE IF Truthy(o)
               THEN result' = Responded(ResponseOf(errorHandler))
               ELSE result' = Responded(DefaultError(error))
       ELSE /\ pc' = "done"
            /\ result' = Responded(DefaultError(error))
            /\ UNCHANGED <<params, calls>>
    /\ UNCHANGED <<request, route, idx, error>>
    /\ UNCHANGED <<routerVars, concurrentVars, middlewareVars, laterVars>>

\* Concurrent calls of handle: each call in progress has a slot
MaxInFlight == 2

Slots == 1..MaxInFlight

\* the locals of a call of handle that is not in progress
Idle ==
    [pc |-> "idle", request |-> [method |-> "GET", pathname |-> Slash, search |-> ""],
     route |-> 0, idx |-> 1, awaiting |-> FALSE, error |-> NoThrow]

\* a Request object on which handle has set nothing
NoFields == [params |-> <<>>, query |-> <<>>]

\* an empty Map, an empty KV namespace
NoEntries == [k \in {} |-> 0]

\* a Router as its constructor leaves it, but for its routes
NoRouter ==
    [globalMiddleware |-> <<>>, notFoundHandler |-> NoHandler,
     errorHandler |-> NoHandler]

\* no call of use(path, router) is in progress
NotMounting ==
    [from |-> "none", k |-> 0, prefix |-> <<>>, held |-> 0, added |-> 0]

\* the database before any migration: no row in _migrations, no migration
\* applied, no body run
NoDatabase == [ready |-> FALSE, recorded |-> {}, applied |-> {}]

\* no call of up or down is in progress
NotRunning ==
    [call |-> "none", status |-> "none", list |-> <<>>, i |-> 0, held |-> {},
     ran |-> <<>>]

\* the caller has the result; the router waits for the next request
Return ==
    /\ pc = "done"
    /\ pc' = "idle"
    /\ request' = [method |-> "GET", pathname |-> Slash]
    /\ params' = <<>>
    /\ route' = 0
    /\ idx' = 1
    /\ error' = NoThrow
    /\ result' = NoResult
    /\ calls' = <<>>
    /\ UNCHANGED <<routerVars, concurrentVars, middlewareVars, laterVars>>

Init ==
    /\ routes = <<>>
    /\ globalMiddleware = <<>>
    /\ notFoundHandler = NoHandler
    /\ errorHandler = NoHandler
    /\ subRoutes = <<>>
    /\ groups = <<>>
    /\ pc = "idle"
    /\ request = [method |-> "GET", pathname |-> Slash]
    /\ params = <<>>
    /\ route = 0
    /\ idx = 1
    /\ error = NoThrow
    /\ result = NoResult
    /\ calls = <<>>
    /\ inFlight = [s \in Slots |-> Idle]
    /\ objects = [s \in Slots |-> NoFields]
    /\ store = NoEntries
    /\ kv = NoEntries
    /\ now = 0
    /\ invocations = <<>>
    /\ subRouter = NoRouter
    /\ mounting = NotMounting
    /\ database = NoDatabase
    /\ runner = NotRunning

Next ==
    \/ Register
    \/ use
    \/ on404
    \/ onError
    \/ Begin
    \/ Global
    \/ Handlers
    \/ handleNotFound
    \/ handleError
    \/ Return

Spec == Init /\ [][Next]_vars

\* The dispatch core over a table composed through groups and mounts
NextCompose ==
    \/ Register
    \/ group
    \/ groupRegister
    \/ subRegister
    \/ mount
    \/ Begin
    \/ Global
    \/ Handlers
    \/ handleNotFound
    \/ handleError
    \/ Return

SpecCompose == Init /\ [][NextCompose]_vars

\* ------------------------------------------------------------------------
\* The pattern compiler on its own: one route, of any path of up to MaxSegs
\* segments, on a fresh router, and requests of up to MaxSegs segments.
\* ------------------------------------------------------------------------
MaxSegs == 2

NameX == <<"x">>
NameY == <<"y">>
DigitsPlus == <<"\\", "d", "+">>

Plain(name) == <<":">> \o name
Constrained(name, regex) == <<":">> \o name \o <<"(">> \o regex \o <<")">>

SegTokens ==
    {<<"a">>, Plain(NameX), Plain(NameY), Constrained(NameX, DigitsPlus),
     Constrained(NameY, DigitsPlus), <<"*">>}

SegValues == {<<"a">>, <<"7">>, <<>>}

RECURSIVE PathsOf(_, _)
PathsOf(segments, n) ==
    IF n = 0
    THEN {<<>>}
    ELSE {p \o Slash \o s : p \in PathsOf(segments, n - 1), s \in segments}

RoutePaths == UNION {PathsOf(SegTokens, n) : n \in 1..MaxSegs}

Pathnames == UNION {PathsOf(SegValues, n) : n \in 1..MaxSegs}

\* router.get(path, handler) on a fresh router, path one of paths
CompileAmong(paths) ==
    \E p \in paths :
        /\ pc = "idle"
        /\ routes = <<>>
        /\ CanAddRoute(routes, p)
        /\ routes' = addRoute(routes, "GET", p, <<Fn("route", 1, 1)>>)
        /\ UNCHANGED <<globalMiddleware, notFoundHandler, errorHandler,
                       subRoutes, groups>>
        /\ UNCHANGED <<handleVars, concurrentVars, middlewareVars, laterVars>>

Compile == CompileAmong(RoutePaths)

BeginAny == BeginWith({[method |-> "GET", pathname |-> p] : p \in Pathnames})

NextCompile ==
    \/ Compile
    \/ BeginAny
    \/ Global
    \/ Handlers
    \/ handleNotFound
    \/ handleError
    \/ Return

SpecCompile == Init /\ [][NextCompile]_vars

\* ------------------------------------------------------------------------
\* Properties
\* ------------------------------------------------------------------------
IsWalk(c) == c.role \in {"middleware", "handler"}

\* the calls of global middleware and route handlers, in order
WalkCalls == SelectSeq(calls, IsWalk)

\* the global middleware followed by the handlers of the matched route
Chain == IF route = 0 THEN <<>> ELSE globalMiddleware \o routes[route].handlers

Accepts(k) ==
    /\ routes[k].method = request.method \/ routes[k].method = "*"
    /\ Test(routes[k].pattern, request.pathname)

Accepting == {k \in 1..Len(routes) : Accepts(k)}

Built(status) ==
    /\ result.kind = "response"
    /\ result.response.by = [src |-> "null", i |-> 0, j |-> 0]
    /\ result.response.status = status

MessageOf(t) == IF t.message # "" THEN t.message ELSE "Internal Server Error"

\* C1: for a request that matches a route, the calls are the global
\* middleware in registration order and then the handlers of the matched
\* route in registration order, every one of them unless an earlier one
\* ended the walk; a call that returns a Response is the last call of the
\* request and its Response is the response of handle.
C1_OrderedShortCircuit ==
    (pc # "idle" /\ route # 0) =>
        LET w == WalkCalls
        IN  /\ Len(w) <= Len(Chain)
            /\ \A k \in 1..Len(w) :
                /\ calls[k] = w[k]
                /\ w[k].handler = Chain[k]
                /\ w[k].role = IF k <= Len(globalMiddleware)
                               THEN "middleware"
                               ELSE "handler"
                /\ k < Len(w) => w[k].outcome = "none"
                /\ w[k].outcome = "respond" =>
                    /\ Len(calls) = k
                    /\ pc = "done"
                    /\ result.kind = "response"
                    /\ result.response.by = Chain[k]
            /\ (pc \in {"notFound", "error", "done"}
                    /\ (w = <<>> \/ w[Len(w)].outcome = "none"))
                  => Len(w) = Len(Chain)

\* C1 witness: global [A, B], route handlers [C, D], B responded
C1_Witness ==
    /\ pc = "done"
    /\ route # 0
    /\ Len(globalMiddleware) = 2
    /\ Len(routes[route].handlers) = 2
    /\ Len(calls) = 2
    /\ calls[2].handler = globalMiddleware[2]
    /\ calls[2].outcome = "respond"
    /\ result.response.by = globalMiddleware[2]

C3_ThrowAbortsChain ==
    \A k \in 1..Len(calls) :
        (IsWalk(calls[k]) /\ calls[k].outcome = "throw") =>
            /\ pc \in {"error", "done"}
            /\ error.message = calls[k].thrown.message
            /\ Len(calls) <= k + 1
            /\ Len(calls) = k + 1 =>
                /\ calls[k + 1].role = "error"
                /\ calls[k + 1].handler = errorHandler
            /\ pc = "done" =>
                IF errorHandler.src = "null"
                THEN Len(calls) = k /\ Built(500)
                ELSE Len(calls) = k + 1

\* C3 witness: the first of two global middleware threw, with a route
\* handler and a not-found handler registered, and nothing else was called
C3_Witness ==
    /\ pc = "done"
    /\ route # 0
    /\ Len(globalMiddleware) = 2
    /\ notFoundHandler.src = "on404"
    /\ Len(calls) = 1
    /\ calls[1].outcome = "throw"
    /\ Built(500)

\* C4 as claimed: a route handler threw and a custom error handler is
\* registered, so the error handler was called with exactly the thrown
\* value and the result is not the default 500 response.
C4_Original ==
    (pc = "done" /\ errorHandler.src # "null") =>
        \A k \in 1..Len(calls) :
            (calls[k].role = "handler" /\ calls[k].outcome = "throw") =>
                /\ \E j \in 1..Len(calls) :
                      calls[j].role = "error" /\ calls[j].error = calls[k].thrown
                /\ ~Built(500)

\* C4 amended: a route handler threw and a custom error handler is
\* registered, so the error handler is the next and last call; it was given
\* the thrown value itself when that is an Error, and otherwise a new Error
\* whose message is String(value); the default 500 response is the result
\* only when the error handler returned nothing.
C4_Amended ==
    (pc = "done" /\ errorHandler.src # "null") =>
        \A k \in 1..Len(calls) :
            (calls[k].role = "handler" /\ calls[k].outcome = "throw") =>
                /\ Len(calls) = k + 1
                /\ calls[k + 1].role = "error"
                /\ calls[k + 1].handler = errorHandler
                /\ calls[k].thrown.isError =>
                      calls[k + 1].error = calls[k].thrown
                /\ ~calls[k].thrown.isError =>
                      /\ calls[k + 1].error.isError
                      /\ calls[k + 1].error.id = 0
                      /\ calls[k + 1].error.message = calls[k].thrown.message
                /\ Built(500) => calls[k + 1].outcome = "none"

\* C4 witness: a route handler threw an Error, the custom error handler got
\* that very Error and answered
C4_Witness ==
    /\ pc = "done"
    /\ Len(calls) >= 2
    /\ calls[Len(calls) - 1].role = "handler"
    /\ calls[Len(calls) - 1].outcome = "throw"
    /\ calls[Len(calls) - 1].thrown.isError
    /\ calls[Len(calls)].role = "error"
    /\ calls[Len(calls)].error = calls[Len(calls) - 1].thrown
    /\ result.kind = "response"
    /\ result.response.by = errorHandler

\* C5 as claimed: whatever a global middleware or route handler threw,
\* handle gave a response: the error handler's when one is registered and
\* returned a Response, and otherwise a 500 whose body carries the message
\* of the thrown error.
C5_Original ==
    pc = "done" =>
        \A k \in 1..Len(calls) :
            (IsWalk(calls[k]) /\ calls[k].outcome = "throw") =>
                /\ result.kind = "response"
                /\ IF /\ errorHandler.src # "null"
                      /\ calls[Len(calls)].role = "error"
                      /\ calls[Len(calls)].outcome = "respond"
                   THEN result.response.by = errorHandler
                   ELSE /\ Built(500)
                        /\ result.response.body = calls[k].thrown.message

\* C5 amended: whatever a global middleware or route handler threw is
\* caught by handle.  With no error handler registered, or one that returned
\* nothing, the result is a 500 response carrying the error's message, or
\* "Internal Server Error" when the message is empty; with an error handler
\* that returned a Response, that Response; and when the error handler
\* itself threw, handle gives no response: what it threw goes to the caller.
C5_Amended ==
    pc = "done" =>
        \A k \in 1..Len(calls) :
            (IsWalk(calls[k]) /\ calls[k].outcome = "throw") =>
                IF errorHandler.src = "null"
                THEN /\ Len(calls) = k
                     /\ Built(500)
                     /\ result.response.body = MessageOf(calls[k].thrown)
                ELSE /\ Len(calls) = k + 1
                     /\ calls[k + 1].role = "error"
                     /\ calls[k + 1].outcome = "respond" =>
                           /\ result.kind = "response"
                           /\ result.response.by = errorHandler
                     /\ calls[k + 1].outcome = "none" =>
                           /\ Built(500)
                           /\ result.response.body = MessageOf(calls[k].thrown)
                     /\ calls[k + 1].outcome = "throw" =>
                           /\ result.kind = "rejected"
                           /\ result.error = calls[k + 1].thrown

\* C5 witness: a global middleware threw an Error with an empty message and
\* no error handler is registered
C5_Witness ==
    /\ pc = "done"
    /\ errorHandler.src = "null"
    /\ Len(calls) = 1
    /\ calls[1].role = "middleware"
    /\ calls[1].outcome = "throw"
    /\ calls[1].thrown.message = ""
    /\ Built(500)
    /\ result.response.body = "Internal Server Error"

\* C6: when no route accepts the request, nothing is called but the
\* not-found handler, if registered, with empty params; its Response is the
\* response; with none registered, or when it returned nothing, the response
\* is the default one, status 404 and body "Not Found"; and no error is
\* raised unless the not-found handler threw.
C6_NotFoundOutcome ==
    (pc # "idle" /\ route = 0) =>
        /\ pc = "notFound" => calls = <<>>
        /\ pc \in {"notFound", "error", "done"}
        /\ pc \in {"error", "done"} =>
            IF notFoundHandler.src = "null"
            THEN /\ calls = <<>>
                 /\ pc = "done"
                 /\ Built(404)
                 /\ result.response.body = "Not Found"
            ELSE /\ calls[1].role = "notFound"
                 /\ calls[1].handler = notFoundHandler
                 /\ calls[1].params = <<EmptyParams>>
                 /\ calls[1].outcome = "respond" =>
                       /\ pc = "done"
                       /\ Len(calls) = 1
                       /\ result.kind = "response"
                       /\ result.response.by = notFoundHandler
                 /\ calls[1].outcome = "none" =>
                       /\ pc = "done"
                       /\ Len(calls) = 1
                       /\ Built(404)
                       /\ result.response.body = "Not Found"
                 /\ calls[1].outcome # "throw" => error.id = 0 /\ ~error.isError

\* C6 witness: routes and global middleware are registered, none accepts
\* the request, and the not-found handler's Response is the result
C6_Witness ==
    /\ pc = "done"
    /\ route = 0
    /\ routes # <<>>
    /\ globalMiddleware # <<>>
    /\ Len(calls) = 1
    /\ calls[1].role = "notFound"
    /\ result.response.by = notFoundHandler

\* C7: when a route accepts the request and every global middleware and
\* route handler called returned nothing, the calls were exactly the global
\* middleware and the handlers of the first accepting route, followed only
\* by the not-found handler (and the error handler if that threw): no
\* handler of a later route that also accepts the request is tried, and the
\* result is the not-found handler's Response or the default 404.
C7_ExhaustedGoesToNotFound ==
    (/\ pc \in {"notFound", "error", "done"}
     /\ Accepting # {}
     /\ \A k \in 1..Len(WalkCalls) : WalkCalls[k].outcome = "none") =>
        LET chain == globalMiddleware \o routes[SetMin(Accepting)].handlers
            n == Len(chain)
        IN  /\ Len(WalkCalls) = n
            /\ \A k \in 1..Len(calls) :
                IF k <= n
                THEN calls[k].handler = chain[k]
                ELSE calls[k].role \in {"notFound", "error"}
            /\ pc = "done" =>
                IF notFoundHandler.src = "null"
                THEN Len(calls) = n /\ Built(404)
                ELSE /\ Len(calls) > n
                     /\ calls[n + 1].role = "notFound"
                     /\ calls[n + 1].handler = notFoundHandler
                     /\ calls[n + 1].outcome = "none" => Built(404)
                     /\ calls[n + 1].outcome = "respond" =>
                           result.response.by = notFoundHandler

\* C7 witness: two routes accept the request, the handlers of the first
\* returned nothing, and the result is the default 404
C7_Witness ==
    /\ pc = "done"
    /\ Len(routes) = 2
    /\ Accepting = {1, 2}
    /\ calls # <<>>
    /\ Len(calls) = Len(globalMiddleware) + Len(routes[1].handlers)
    /\ \A k \in 1..Len(calls) : calls[k].outcome = "none"
    /\ Built(404)

C9_ErrorHandlerSeesParams ==
    \A k \in 1..Len(calls) :
        (calls[k].role = "error" /\ route # 0) =>
            calls[k].params = <<extractParams(routes[route], request.pathname)>>

\* the segments of a path: what follows each "/"
RECURSIVE SegmentsOf(_)
SegmentsOf(s) ==
    IF s = <<>>
    THEN <<>>
    ELSE LET stops == {k \in 2..Len(s) : s[k] = "/"}
             e == IF stops = {} THEN Len(s) + 1 ELSE SetMin(stops)
         IN  <<SubSeq(s, 2, e - 1)>> \o SegmentsOf(SubSeq(s, e, Len(s)))

IsParamSegment(seg) == seg # <<>> /\ seg[1] = ":"

\* the name of a ":name" or ":name(constraint)" segment
NameOf(seg) ==
    LET stops == {k \in 2..Len(seg) : seg[k] = "("}
    IN  SubSeq(seg, 2, IF stops = {} THEN Len(seg) ELSE SetMin(stops) - 1)

RECURSIVE NamesLeftToRight(_, _)
NamesLeftToRight(segs, i) ==
    IF i > Len(segs)
    THEN <<>>
    ELSE (IF IsParamSegment(segs[i]) THEN <<NameOf(segs[i])>> ELSE <<>>)
            \o NamesLeftToRight(segs, i + 1)

\* C10 as claimed: for a matched route with several parameters of distinct
\* names, plain or constrained, and no wildcard, paramNames lists the names
\* in left-to-right order of the path and params[name] is the segment of
\* the request path at that name's position.
C10_ParamsByPosition ==
    (pc \in {"global", "route"} /\ route # 0) =>
        LET segs == SegmentsOf(routes[route].path)
            vals == SegmentsOf(request.pathname)
            at == {i \in 1..Len(segs) : IsParamSegment(segs[i])}
        IN  (/\ Cardinality(at) >= 2
             /\ \A i \in 1..Len(segs) : segs[i] # <<"*">>
             /\ \A i, j \in at : i # j => NameOf(segs[i]) # NameOf(segs[j]))
            => /\ routes[route].paramNames = NamesLeftToRight(segs, 1)
               /\ \A i \in at : params[1][NameOf(segs[i])] = vals[i]

\* a segment of letters, digits and "_" only
IsLiteralSegment(seg) ==
    seg # <<>> /\ \A k \in 1..Len(seg) : seg[k] \in WordChars

\* a ":name" segment without a constraint
IsPlainSegment(seg) ==
    /\ IsParamSegment(seg)
    /\ Len(seg) >= 2
    /\ \A k \in 2..Len(seg) : seg[k] \in WordChars

\* C11: a route whose path is made of literal segments and plain ":name"
\* segments accepts a request path if and only if the two have the same
\* number of segments, every literal segment is equal to the request's and
\* every ":name" segment stands against a non-empty segment -- so no empty
\* segment, no extra segment and no extra prefix -- and, the names being
\* distinct, params[name] is the request's segment at the name's position.
C11_AnchoredPlainParams ==
    (pc \in {"global", "route", "notFound"} /\ calls = <<>> /\ Len(routes) = 1) =>
        LET segs == SegmentsOf(routes[1].path)
            vals == SegmentsOf(request.pathname)
            at == {i \in 1..Len(segs) : IsPlainSegment(segs[i])}
            fits == /\ Len(vals) = Len(segs)
                    /\ \A i \in 1..Len(segs) :
                          IF i \in at THEN vals[i] # <<>> ELSE vals[i] = segs[i]
        IN  (\A i \in 1..Len(segs) :
                IsPlainSegment(segs[i]) \/ IsLiteralSegment(segs[i]))
            => /\ (route = 1) = fits
               /\ (/\ route = 1
                   /\ \A i, j \in at : i # j => NameOf(segs[i]) # NameOf(segs[j]))
                  => \A i \in at : params[1][NameOf(segs[i])] = vals[i]

\* C11 witness: the route /a/:x has accepted /a/7 with params.x = "7"
C11_Witness ==
    /\ pc = "global"
    /\ Len(routes) = 1
    /\ routes[1].path = <<"/", "a", "/", ":", "x">>
    /\ request.pathname = <<"/", "a", "/", "7">>
    /\ route = 1
    /\ params = <<[n \in {NameX} |-> <<"7">>]>>

\* ------------------------------------------------------------------------
\* A constrained route and a plain route over the same prefix
\* ------------------------------------------------------------------------
PathP == <<"/", "p">>
NameId == <<"i", "d">>
NameSlug == <<"s", "l", "u", "g">>

PathConstrained == PathP \o Slash \o Constrained(NameId, DigitsPlus)
PathPlain == PathP \o Slash \o Plain(NameSlug)

ConstraintKinds ==
    {[method |-> "GET", path |-> PathConstrained],
     [method |-> "GET", path |-> PathPlain]}

ConstraintRequests ==
    {[method |-> "GET", pathname |-> PathP \o <<"/", "7">>],
     [method |-> "GET", pathname |-> PathP \o <<"/", "7", "1">>],
     [method |-> "GET", pathname |-> PathP \o <<"/", "a", "b", "c">>],
     [method |-> "GET", pathname |-> PathP \o <<"/", "7", "a">>]}

RegisterConstraint == RegisterAmong(ConstraintKinds, HandlerCount, MaxHandlers)

BeginConstraint == BeginWith(ConstraintRequests)

NextConstraint ==
    \/ RegisterConstraint
    \/ BeginConstraint
    \/ Global
    \/ Handlers
    \/ handleNotFound
    \/ handleError
    \/ Return

SpecConstraint == Init /\ [][NextConstraint]_vars

AllDigits(v) == v # <<>> /\ \A k \in 1..Len(v) : v[k] \in Digits

\* C12: with routes /p/:id(\d+) and /p/:slug in the table, a request /p/v
\* whose v is made of digits goes to the first route of the table, with
\* params.id = v when that is the constrained one; a request whose v is
\* not goes to the first plain route, passing over the constrained routes
\* before it; and when the table holds no plain route it ends in not-found.
C12_ConstraintThenNext ==
    (pc \in {"global", "notFound"} /\ calls = <<>>) =>
        LET v == SegmentsOf(request.pathname)[2]
            plain == {k \in 1..Len(routes) : routes[k].path = PathPlain}
        IN  /\ AllDigits(v) =>
                /\ route = (IF routes = <<>> THEN 0 ELSE 1)
                /\ (route = 1 /\ routes[1].path = PathConstrained) =>
                      params = <<[n \in {NameId} |-> v]>>
            /\ ~AllDigits(v) =>
                /\ route = (IF plain = {} THEN 0 ELSE SetMin(plain))
                /\ route # 0 => params = <<[n \in {NameSlug} |-> v]>>
            /\ (route = 0) = (pc = "notFound")

\* C12 witness: /p/abc was rejected by the constrained route registered
\* first and dispatched to the plain route registered second
C12_Witness ==
    /\ pc = "global"
    /\ Len(routes) = 2
    /\ routes[1].path = PathConstrained
    /\ routes[2].path = PathPlain
    /\ request.pathname = PathP \o <<"/", "a", "b", "c">>
    /\ route = 2

\* ------------------------------------------------------------------------
\* Route paths whose text holds characters the pattern grammar gives a
\* meaning to: inside a constraint, and outside every token
\* ------------------------------------------------------------------------
StarConstraint == <<"a", "*">>
ColonConstraint == <<"a", ":", "b">>

TextPaths ==
    {Slash \o Constrained(NameX, DigitsPlus),
     Slash \o Constrained(NameX, StarConstraint),
     Slash \o Constrained(NameX, ColonConstraint),
     <<"/", "a", "b">>,
     <<"/", "a", ".", "b">>}

TextPathnames ==
    {<<"/", "7">>, <<"/", "a">>, <<"/", "a", "b">>, <<"/", "a", ".", "b">>,
     <<"/", "a", "x", "b">>, <<"/", "a", ":", "b">>}

CompileText == CompileAmong(TextPaths)

BeginText ==
    BeginWith({[method |-> "GET", pathname |-> p] : p \in TextPathnames})

NextText ==
    \/ CompileText
    \/ BeginText
    \/ Global
    \/ Handlers
    \/ handleNotFound
    \/ handleError
    \/ Return

SpecText == Init /\ [][NextText]_vars

\* C13 as claimed: a route /:name(constraint) accepts a request /v exactly
\* when the constraint, taken as a regular expression on its own, accepts
\* the whole of v.
C13_ConstraintVerbatim ==
    (/\ pc \in {"global", "notFound"}
     /\ calls = <<>>
     /\ Len(routes) = 1
     /\ ConstraintAt(routes[1].path, 2).ok
     /\ ConstraintAt(routes[1].path, 2).next = Len(routes[1].path) + 1) =>
        LET c == ConstraintAt(routes[1].path, 2).regex
            v == SubSeq(request.pathname, 2, Len(request.pathname))
        IN  (route = 1)
                = Test(RegExpOf(<<"^", "(">> \o c \o <<")", "$">>), v)

\* C14 as claimed: a route whose path holds no ":" and no "*" accepts a
\* request path exactly when the two are equal.
C14_LiteralsMatchThemselves ==
    (/\ pc \in {"global", "notFound"}
     /\ calls = <<>>
     /\ Len(routes) = 1
     /\ \A k \in 1..Len(routes[1].path) : routes[1].path[k] \notin {":", "*"}) =>
        (route = 1) = (request.pathname = routes[1].path)

\* ------------------------------------------------------------------------
\* Nested route groups: groups of groups over two prefixes, their
\* middleware, and the routes registered through them
\* ------------------------------------------------------------------------
MaxScopes == 2
MaxFunctions == 3

PathV == <<"/", "v">>

ScopePrefixes == {PathU, PathV}

ScopeRequests ==
    {[method |-> "GET", pathname |-> PathU \o PathV \o PathMe],
     [method |-> "GET", pathname |-> PathU \o Path42]}

\* the group calls of the nested groups: each on the group made last, the
\* first on the router, and without middleware (use adds it)
ScopeCalls ==
    {[parent |-> Len(groups), prefix |-> x, n |-> 0] : x \in ScopePrefixes}

groupScoped == groupAmong(ScopeCalls, MaxScopes, FunctionCount, MaxFunctions)

groupUseScoped == groupUseWithin(FunctionCount, MaxFunctions)

groupRegisterScoped == groupRegisterWithin(FunctionCount, MaxFunctions)

BeginScoped == BeginWith(ScopeRequests)

NextGroup ==
    \/ groupScoped
    \/ groupUseScoped
    \/ groupRegisterScoped
    \/ BeginScoped
    \/ Global
    \/ Handlers
    \/ handleNotFound
    \/ handleError
    \/ Return

SpecGroup == Init /\ [][NextGroup]_vars

\* the prefixes passed to the group calls that lead to group g, outermost
\* first, concatenated
RECURSIVE FullPrefix(_)
FullPrefix(g) ==
    IF g = 0 THEN <<>> ELSE FullPrefix(groups[g].parent) \o groups[g].own

\* the function passed to the group registration call that made route r,
\* NoHandler when r was not registered through a group
SuppliedTo(r) ==
    LET at == {j \in 1..Len(r.handlers) : r.handlers[j].src = "groupRoute"}
    IN  IF at = {} THEN NoHandler ELSE r.handlers[SetMax(at)]

\* C15: every route registered through a group, nested or not, is in the
\* table of the router with the path made of the prefixes of the enclosing
\* groups, outermost first, followed by the path passed to the call, and
\* with the method of that call.
C15_GroupPathConcatenation ==
    \A k \in 1..Len(routes) :
        SuppliedTo(routes[k]).src = "groupRoute" =>
            \E kind \in RelKinds :
                /\ routes[k].method = kind.method
                /\ routes[k].path
                      = FullPrefix(SuppliedTo(routes[k]).i) \o kind.path

\* C15 witness: router.group("/u").group("/v").all("/me", h) has put the
\* route * /u/v/me in the table
C15_Witness ==
    \E k \in 1..Len(routes) :
        LET g == SuppliedTo(routes[k]).i
        IN  /\ SuppliedTo(routes[k]).src = "groupRoute"
            /\ groups[g].parent # 0
            /\ groups[g].own = PathV
            /\ groups[groups[g].parent].own = PathU
            /\ groups[groups[g].parent].parent = 0
            /\ routes[k].method = "*"
            /\ routes[k].path = PathU \o PathV \o PathMe

\* the middleware group g was given itself, at its creation and by use, in
\* the order given: what its list holds beyond the inherited part
OwnMiddleware(g) ==
    LET IsOwn(h) == h.i = g /\ h.src \in {"group", "groupUse"}
    IN  SelectSeq(groups[g].groupMiddleware, IsOwn)

\* a step that registers a route through a nested group
NestedRegistration ==
    /\ Len(routes') = Len(routes) + 1
    /\ SuppliedTo(routes'[Len(routes')]).src = "groupRoute"
    /\ groups[SuppliedTo(routes'[Len(routes')]).i].parent # 0

\* the handler calls of the request in progress follow the chain of the
\* matched route from its start
RunsAlongChain ==
    LET ran == SelectSeq(calls, LAMBDA c : c.role = "handler")
    IN  Len(ran) > 0 =>
            /\ route # 0
            /\ Len(ran) <= Len(routes[route].handlers)
            /\ \A n \in 1..Len(ran) :
                  ran[n].handler = routes[route].handlers[n]

\* C16 as claimed: the chain of a route registered through a nested group
\* is the middleware list the parent group has when the registration call
\* is made, followed by the child group's own middleware, followed by the
\* function passed to the call.
C16_Original ==
    [][NestedRegistration =>
          LET r == routes'[Len(routes')]
              g == SuppliedTo(r).i
          IN  r.handlers = groups[groups[g].parent].groupMiddleware
                              \o OwnMiddleware(g) \o <<SuppliedTo(r)>>]_vars

\* C16, amended: the chain of a route registered through a nested group is
\* the middleware list the parent group had when the child group was
\* created, followed by the child group's own middleware at the time of
\* the registration call, followed by the function passed to the call; and
\* a request to the route runs the handlers along that chain, in order.
C16_Amended ==
    /\ [][NestedRegistration =>
            LET r == routes'[Len(routes')]
                g == SuppliedTo(r).i
            IN  r.handlers
                    = SubSeq(groups[groups[g].parent].groupMiddleware,
                             1, groups[g].at)
                        \o OwnMiddleware(g) \o <<SuppliedTo(r)>>]_vars
    /\ []RunsAlongChain

\* C16 witness: a request to a route of a nested group has run one
\* middleware of the parent group, then one of the child group, then the
\* function passed to the registration call
C16_Witness ==
    /\ route # 0
    /\ Len(calls) = 3
    /\ calls[3].handler.src = "groupRoute"
    /\ groups[calls[3].handler.i].parent # 0
    /\ calls[1].handler.src = "groupUse"
    /\ calls[1].handler.i = groups[calls[3].handler.i].parent
    /\ calls[2].handler.src = "groupUse"
    /\ calls[2].handler.i = calls[3].handler.i
    /\ \A n \in 1..3 : calls[n].role = "handler"

\* ------------------------------------------------------------------------
\* A second router mounted on the first: routes and global middleware of
\* the first, routes of the second, mounts, and requests to the first
\* ------------------------------------------------------------------------
MaxMounted == 2
MaxTable == 3

MountRequests ==
    {[method |-> "GET", pathname |-> PathU \o PathMe],
     [method |-> "GET", pathname |-> PathU \o Path42]}

RegisterParent == RegisterAmong(RouteKinds, FunctionCount, MaxFunctions)

useParent == useWithin(FunctionCount, MaxFunctions)

subRegisterMounted ==
    subRegisterAmong(RelKinds, MaxMounted, FunctionCount, MaxFunctions)

mountMounted == mountWithin(MaxTable, FunctionCount, MaxFunctions)

BeginMounted == BeginWith(MountRequests)

NextMount ==
    \/ RegisterParent
    \/ useParent
    \/ subRegisterMounted
    \/ mountMounted
    \/ BeginMounted
    \/ Global
    \/ Handlers
    \/ handleNotFound
    \/ handleError
    \/ Return

SpecMount == Init /\ [][NextMount]_vars

\* route r of the table came from the second router
IsMounted(r) == r.handlers[1].src = "sub"

\* a step that mounts the second router
MountStep ==
    /\ Len(routes') > Len(routes)
    /\ subRoutes' = subRoutes
    /\ IsMounted(routes'[Len(routes) + 1])

C18_MountIsOneTimeCopy ==
    /\ [][subRoutes' # subRoutes => routes' = routes]_vars
    /\ [](\A c \in 1..Len(calls) :
            calls[c].role = "handler" =>
                /\ route \in 1..Len(routes)
                /\ \E j \in 1..Len(routes[route].handlers) :
                      routes[route].handlers[j] = calls[c].handler)

\* C18 witness: the second router was mounted at /u with the route /me,
\* then got the route /:id, and a request GET /u/42 to the first router
\* found no route
C18_Witness ==
    /\ pc = "notFound"
    /\ route = 0
    /\ request.pathname = PathU \o Path42
    /\ Len(routes) = 1
    /\ Len(subRoutes) = 2
    /\ routes[1].path = PathU \o PathMe
    /\ routes[1].handlers = subRoutes[1].handlers
    /\ subRoutes[2].path = PathId

\* C19: for a request dispatched to a route that came from the mounted
\* router, the calls made are the global middleware of the first router, in
\* registration order, and then the handler list the route was registered
\* with on the second router, in order, up to the first call that returns
\* a response or throws; so a response from a global middleware keeps the
\* handlers of the mounted route from running.
C19_MountedBehindGlobal ==
    (route # 0 /\ IsMounted(routes[route])) =>
        LET chain == globalMiddleware
                        \o subRoutes[routes[route].handlers[1].i].handlers
        IN  /\ Len(WalkCalls) <= Len(chain)
            /\ \A n \in 1..Len(WalkCalls) :
                  /\ WalkCalls[n].handler = chain[n]
                  /\ WalkCalls[n].role
                        = (IF n <= Len(globalMiddleware)
                           THEN "middleware" ELSE "handler")
                  /\ n < Len(WalkCalls) => WalkCalls[n].outcome = "none"
            /\ pc \in {"route", "notFound"} =>
                  Len(WalkCalls) >= Len(globalMiddleware)

\* C19 witness: a request to a mounted route has run a global middleware
\* of the first router and then the two handlers the route was registered
\* with on the second router
C19_Witness ==
    /\ route # 0
    /\ IsMounted(routes[route])
    /\ Len(globalMiddleware) = 1
    /\ Len(calls) = 3
    /\ calls[1].handler = globalMiddleware[1]
    /\ calls[1].role = "middleware"
    /\ calls[2].handler = Fn("sub", 1, 1)
    /\ calls[3].handler = Fn("sub", 1, 2)

\* ------------------------------------------------------------------------
\* The awaits of handle: a call of a middleware or handler and the arrival
\* of its result are two steps, and the function is running in between
\* ------------------------------------------------------------------------
Pending == [kind |-> "pending", thrown |-> NoThrow]

\* a middleware or handler of the request has been called and its result
\* has not arrived
Awaiting == calls # <<>> /\ calls[Len(calls)].outcome = "pending"

\* Mutant of WalkCall: the loop calls the next function without awaiting
\* the result of the one before
WalkCallNotAwaited(chain, role, after) ==
    /\ idx + Cardinality({c \in 1..Len(calls) : calls[c].outcome = "pending"})
          <= Len(chain)
    /\ params' = params
    /\ calls' = Append(calls,
                       Call(chain[idx + Cardinality({c \in 1..Len(calls) :
                                       calls[c].outcome = "pending"})],
                            role, Pending))
    /\ UNCHANGED <<pc, idx, error, result>>

\* "await h(reqWithParams, env, ctx)", first half: the loop is not waiting
\* for a result, and calls chain[idx] or, at the end of the chain, goes on
WalkCall(chain, role, after) ==
    /\ ~Awaiting
    /\ IF idx > Len(chain)
       THEN /\ pc' = after
            /\ idx' = 1
            /\ UNCHANGED <<params, error, result, calls>>
       ELSE /\ params' = params
            /\ calls' = Append(calls, Call(chain[idx], role, Pending))
            /\ UNCHANGED <<pc, idx, error, result>>

\* Mutant of WalkAwait: a function that threw is called again
WalkAwaitRetries(chain, role) ==
    /\ Awaiting
    /\ \E o \in Outcomes :
        /\ params' = params
        /\ calls' = [calls EXCEPT ![Len(calls)] = Call(chain[idx], role, o)]
        /\ IF o.kind = "throw"
           THEN /\ pc' = pc
                /\ idx' = idx
                /\ UNCHANGED <<error, result>>
           ELSE IF Truthy(o)
           THEN /\ pc' = "done"
                /\ idx' = idx
                /\ result' = Responded(ResponseOf(chain[idx]))
                /\ UNCHANGED error
           ELSE /\ pc' = pc
                /\ idx' = idx + 1
                /\ UNCHANGED <<error, result>>

\* "await h(reqWithParams, env, ctx)", second half: the result of the call
\* arrives, and "if (response) return response" or the catch clause acts
WalkAwait(chain, role) ==
    /\ Awaiting
    /\ \E o \in Outcomes :
        /\ params' = params
        /\ calls' = [calls EXCEPT ![Len(calls)] = Call(chain[idx], role, o)]
        /\ IF o.kind = "throw"
           THEN /\ pc' = "error"
                /\ idx' = idx
                /\ error' = ToError(o.thrown)
                /\ UNCHANGED result
           ELSE IF Truthy(o)
           THEN /\ pc' = "done"
                /\ idx' = idx
                /\ result' = Responded(ResponseOf(chain[idx]))
                /\ UNCHANGED error
           ELSE /\ pc' = pc
                /\ idx' = idx + 1
                /\ UNCHANGED <<error, result>>

\* handle, lines 304-309, call by call
GlobalCall ==
    /\ pc = "global"
    /\ WalkCall(globalMiddleware, "middleware", "route")
    /\ UNCHANGED <<request, route>>
    /\ UNCHANGED <<routerVars, concurrentVars, middlewareVars, laterVars>>

GlobalAwait ==
    /\ pc = "global"
    /\ WalkAwait(globalMiddleware, "middleware")
    /\ UNCHANGED <<request, route>>
    /\ UNCHANGED <<routerVars, concurrentVars, middlewareVars, laterVars>>

\* handle, lines 312-320, call by call
HandlersCall ==
    /\ pc = "route"
    /\ WalkCall(routes[route].handlers, "handler", "notFound")
    /\ UNCHANGED <<request, route>>
    /\ UNCHANGED <<routerVars, concurrentVars, middlewareVars, laterVars>>

HandlersAwait ==
    /\ pc = "route"
    /\ WalkAwait(routes[route].handlers, "handler")
    /\ UNCHANGED <<request, route>>
    /\ UNCHANGED <<routerVars, concurrentVars, middlewareVars, laterVars>>

NextAwait ==
    \/ Register
    \/ use
    \/ Begin
    \/ GlobalCall
    \/ GlobalAwait
    \/ HandlersCall
    \/ HandlersAwait
    \/ handleNotFound
    \/ handleError
    \/ Return

SpecAwait == Init /\ [][NextAwait]_vars

\* the calls of the request whose result has not arrived
Running == {c \in 1..Len(calls) : calls[c].outcome = "pending"}

\* C20: at every moment of a request at most one middleware or handler has
\* been called without its result having arrived, it is the one called
\* last, and all the calls before it have returned nothing.
C20_OneAtATime ==
    /\ Cardinality(Running) <= 1
    /\ \A c \in Running :
          /\ c = Len(calls)
          /\ \A b \in 1..(c - 1) : calls[b].outcome = "none"

\* C20 witness: the second handler of a route is running, after a global
\* middleware and the first handler have returned
C20_Witness ==
    /\ pc = "route"
    /\ Len(calls) = 3
    /\ calls[1].role = "middleware"
    /\ calls[2].role = "handler"
    /\ calls[3].role = "handler"
    /\ calls[3].outcome = "pending"
    /\ calls[3].handler = routes[route].handlers[2]

\* ------------------------------------------------------------------------
\* Several calls of handle in progress on one router: every await of handle
\* is a point where another call may run
\* ------------------------------------------------------------------------
Search1 == "a=1"
Search2 == "b=2"

SharedRequests ==
    {[method |-> "GET", pathname |-> PathU \o PathMe, search |-> Search1],
     [method |-> "GET", pathname |-> PathU \o Path42, search |-> Search2]}

\* Mutant of Holder: params and query are kept in one place for all the
\* calls of handle
HolderShared(s) == 1

\* "const reqWithParams = request as RequestWithParams": the object that
\* receives params and query is the Request the call was given, and every
\* call of handle is given a Request of its own
Holder(s) == s

\* registrations are made at startup, before any request is in progress
NobodyInFlight == \A s \in Slots : inFlight[s].pc = "idle"

\* the router of the concurrent calls has one route with one handler, one
\* global middleware, a not-found handler and an error handler, or less
RegisterShared ==
    /\ NobodyInFlight
    /\ routes = <<>>
    /\ RegisterAmong(RouteKinds, 0, 1)

useShared ==
    /\ NobodyInFlight
    /\ globalMiddleware = <<>>
    /\ useWithin(0, 1)

on404Shared == NobodyInFlight /\ on404

onErrorShared == NobodyInFlight /\ onError

\* the fields handle sets on the Request of r
FieldsOf(r, ps) == [params |-> <<ps>>, query |-> <<r.search>>]

\* handle, lines 286-301, of the call in slot s
BeginShared(s) ==
    /\ inFlight[s].pc = "idle"
    /\ \E r \in SharedRequests :
        LET found == findRoute(r.method, r.pathname)
        IN  IF found = 0
            THEN /\ inFlight' = [inFlight EXCEPT ![s] =
                        [Idle EXCEPT !.pc = "notFound", !.request = r]]
                 /\ UNCHANGED objects
            ELSE /\ inFlight' = [inFlight EXCEPT ![s] =
                        [Idle EXCEPT !.pc = "global", !.request = r,
                                     !.route = found]]
                 /\ objects' = [objects EXCEPT ![Holder(s)] =
                        FieldsOf(r, extractParams(routes[found], r.pathname))]
    /\ UNCHANGED <<routerVars, handleVars, middlewareVars, laterVars>>

\* Mutant of WalkShared: the loop takes the functions out of the list of
\* the router as it goes, so the end of the loop over the global middleware
\* leaves that list empty
WalkSharedDrains(s, chain, after) ==
    LET c == inFlight[s]
    IN  /\ IF c.awaiting
           THEN /\ \E o \in FallbackOutcomes :
                    inFlight' = [inFlight EXCEPT ![s] =
                        IF o.kind = "throw"
                        THEN [c EXCEPT !.awaiting = FALSE, !.pc = "error",
                                       !.error = ToError(o.thrown)]
                        ELSE IF Truthy(o)
                        THEN [c EXCEPT !.awaiting = FALSE, !.pc = "done"]
                        ELSE [c EXCEPT !.awaiting = FALSE, !.idx = c.idx + 1]]
                /\ UNCHANGED globalMiddleware
           ELSE IF c.idx > Len(chain)
           THEN /\ inFlight' = [inFlight EXCEPT ![s] =
                                   [c EXCEPT !.pc = after, !.idx = 1]]
                /\ globalMiddleware' = IF c.pc = "global" THEN <<>>
                                       ELSE globalMiddleware
           ELSE /\ inFlight' = [inFlight EXCEPT ![s] = [c EXCEPT !.awaiting = TRUE]]
                /\ UNCHANGED globalMiddleware
        /\ UNCHANGED objects
        /\ UNCHANGED <<routes, notFoundHandler, errorHandler, subRoutes, groups>>
        /\ UNCHANGED <<handleVars, middlewareVars, laterVars>>

\* one of the loops of handle in slot s: the call of chain[idx], the arrival
\* of its result, or the end of the loop
WalkShared(s, chain, after) ==
    LET c == inFlight[s]
    IN  /\ IF c.awaiting
           THEN \E o \in FallbackOutcomes :
                inFlight' = [inFlight EXCEPT ![s] =
                    IF o.kind = "throw"
                    THEN [c EXCEPT !.awaiting = FALSE, !.pc = "error",
                                   !.error = ToError(o.thrown)]
                    ELSE IF Truthy(o)
                    THEN [c EXCEPT !.awaiting = FALSE, !.pc = "done"]
                    ELSE [c EXCEPT !.awaiting = FALSE, !.idx = c.idx + 1]]
           ELSE IF c.idx > Len(chain)
           THEN inFlight' = [inFlight EXCEPT ![s] =
                                [c EXCEPT !.pc = after, !.idx = 1]]
           ELSE inFlight' = [inFlight EXCEPT ![s] = [c EXCEPT !.awaiting = TRUE]]
        /\ UNCHANGED objects
        /\ UNCHANGED <<routerVars, handleVars, middlewareVars, laterVars>>

GlobalShared(s) ==
    /\ inFlight[s].pc = "global"
    /\ WalkShared(s, globalMiddleware, "route")

HandlersShared(s) ==
    /\ inFlight[s].pc = "route"
    /\ WalkShared(s, routes[inFlight[s].route].handlers, "notFound")

\* handleNotFound and handleError in slot s: with a handler registered, the
\* Request gets empty params and its own query, the handler is called, and
\* its result arrives
FallbackShared(s, at, h, thrownTo) ==
    LET c == inFlight[s]
    IN  /\ c.pc = at
        /\ IF h = NoHandler
           THEN /\ inFlight' = [inFlight EXCEPT ![s] = [c EXCEPT !.pc = "done"]]
                /\ UNCHANGED objects
           ELSE IF ~c.awaiting
           THEN /\ inFlight' = [inFlight EXCEPT ![s] = [c EXCEPT !.awaiting = TRUE]]
                /\ objects' = [objects EXCEPT ![Holder(s)] =
                                  FieldsOf(c.request, EmptyParams)]
           ELSE /\ \E o \in FallbackOutcomes :
                    inFlight' = [inFlight EXCEPT ![s] =
                        IF o.kind = "throw"
                        THEN [c EXCEPT !.awaiting = FALSE, !.pc = thrownTo,
                                       !.error = ToError(o.thrown)]
                        ELSE [c EXCEPT !.awaiting = FALSE, !.pc = "done"]]
                /\ UNCHANGED objects
        /\ UNCHANGED <<routerVars, handleVars, middlewareVars, laterVars>>

handleNotFoundShared(s) == FallbackShared(s, "notFound", notFoundHandler, "error")

handleErrorShared(s) == FallbackShared(s, "error", errorHandler, "done")

\* the caller of slot s has the result and drops the Request
ReturnShared(s) ==
    /\ inFlight[s].pc = "done"
    /\ inFlight' = [inFlight EXCEPT ![s] = Idle]
    /\ objects' = [objects EXCEPT ![Holder(s)] = NoFields]
    /\ UNCHANGED <<routerVars, handleVars, middlewareVars, laterVars>>

NextShared ==
    \/ RegisterShared
    \/ useShared
    \/ on404Shared
    \/ onErrorShared
    \/ \E s \in Slots : BeginShared(s)
    \/ \E s \in Slots : GlobalShared(s)
    \/ \E s \in Slots : HandlersShared(s)
    \/ \E s \in Slots : handleNotFoundShared(s)
    \/ \E s \in Slots : handleErrorShared(s)
    \/ \E s \in Slots : ReturnShared(s)

SpecShared == Init /\ [][NextShared]_vars

\* the fields the Request of slot s must carry while a middleware or
\* handler of its route may look at it
OwnFields(s) ==
    FieldsOf(inFlight[s].request,
             extractParams(routes[inFlight[s].route], inFlight[s].request.pathname))

\* C21: while calls of handle are in progress at the same time, the Request
\* each middleware, handler, not-found handler or error handler was given
\* carries the params and the query of its own request at every moment the
\* function is running, whatever the other calls of handle do meanwhile.
C21_OwnParams ==
    \A s \in Slots :
        /\ inFlight[s].pc \in {"global", "route"}
              => objects[Holder(s)] = OwnFields(s)
        /\ (inFlight[s].pc \in {"notFound", "error"} /\ inFlight[s].awaiting)
              => objects[Holder(s)] = FieldsOf(inFlight[s].request, EmptyParams)

\* C21 witness: two handlers are running at the same time for two requests
\* with different params and different queries
C21_Witness ==
    /\ inFlight[1].pc = "route" /\ inFlight[1].awaiting
    /\ inFlight[2].pc = "route" /\ inFlight[2].awaiting
    /\ inFlight[1].route = inFlight[2].route
    /\ objects[Holder(1)].params # objects[Holder(2)].params
    /\ objects[Holder(1)].query # objects[Holder(2)].query
    /\ objects[Holder(1)].params[1] # EmptyParams

\* C22: no step of a call of handle, whatever other calls are in progress,
\* changes the routes, their order or handlers, the global middleware, the
\* not-found handler or the error handler; and when a call ends, whatever
\* calls ran meanwhile, findRoute still gives the route it worked on for
\* its method and path.
C22_NoRequestTimeMutation ==
    [][/\ inFlight' # inFlight =>
              UNCHANGED <<routes, globalMiddleware, notFoundHandler, errorHandler>>
       /\ \A s \in Slots :
              (inFlight[s].pc = "done" /\ inFlight'[s].pc = "idle") =>
                  inFlight[s].route = findRoute(inFlight[s].request.method,
                                                inFlight[s].request.pathname)]_vars

\* C22 witness: one call of handle has ended and another is in its route
\* handler, on a router with a route, a global middleware and a not-found
\* handler
C22_Witness ==
    /\ inFlight[1].pc = "done"
    /\ inFlight[2].pc = "route" /\ inFlight[2].awaiting
    /\ globalMiddleware # <<>>
    /\ notFoundHandler # NoHandler

\* ------------------------------------------------------------------------
\* Middleware registered after a route: in this specification use is called
\* only once the first route has been registered
\* ------------------------------------------------------------------------
useLate == routes # <<>> /\ use

\* Mutant of GlobalLate: a route runs only the global middleware that was
\* registered before it, which for the first route is none
GlobalLateSnapshot ==
    IF pc = "global" /\ route = 1
    THEN /\ pc' = "route"
         /\ idx' = 1
         /\ UNCHANGED <<request, route, params, error, result, calls>>
         /\ UNCHANGED <<routerVars, concurrentVars, middlewareVars, laterVars>>
    ELSE Global

\* handle, lines 304-309: the loop reads this.globalMiddleware as it is when
\* the request is handled
GlobalLate == Global

NextLate ==
    \/ Register
    \/ useLate
    \/ Begin
    \/ GlobalLate
    \/ Handlers
    \/ handleNotFound
    \/ handleError
    \/ Return

SpecLate == Init /\ [][NextLate]_vars

OptionalDigit == <<"\\", "d", "?">>

ParamPaths ==
    {Slash \o Constrained(NameX, OptionalDigit),
     Slash \o Constrained(NameX, <<"a">>) \o <<"?">>,
     Slash \o Constrained(NameX, <<"a">>) \o <<"|">> \o Slash
           \o Constrained(NameY, <<"b">>),
     PathU \o Slash \o Plain(NameX)}

ParamPathnames == {Slash, <<"/", "7">>, <<"/", "a">>, <<"/", "b">>, PathU \o PathMe}

CompileParams == CompileAmong(ParamPaths)

BeginParams ==
    BeginWith({[method |-> "GET", pathname |-> p] : p \in ParamPathnames})

NextParams ==
    \/ CompileParams
    \/ BeginParams
    \/ Global
    \/ Handlers
    \/ handleNotFound
    \/ handleError
    \/ Return

SpecParams == Init /\ [][NextParams]_vars

\* C24: while the middleware and handlers of a matched route run, params
\* has an entry under every name of the route's paramNames, and no entry
\* is undefined: a capture that took no part in the match, or matched no
\* character, gives the empty string.
C24_ParamsAreStrings ==
    (route # 0 /\ pc \in {"global", "route"}) =>
        /\ params # <<>>
        /\ DOMAIN params[1] =
              {routes[route].paramNames[i] :
                  i \in 1..Len(routes[route].paramNames)}
        /\ \A n \in DOMAIN params[1] : params[1][n] # Undefined

\* C24 witness: the route /:x(a)|/:y(b) has matched /b, its first capture
\* took no part in the match, and the handler was called with x = "" and
\* y = "b"
C24_Witness ==
    /\ route # 0
    /\ routes[route].paramNames = <<NameX, NameY>>
    /\ Len(calls) = 1
    /\ calls[1].role = "handler"
    /\ Match(routes[route].pattern, request.pathname).caps[1] = <<>>
    /\ calls[1].params[1][NameX] = <<>>
    /\ calls[1].params[1][NameY] = <<"b">>

\* ------------------------------------------------------------------------
\* The same raw path registered more than once, on the application router
\* and on a second router, with requests handled in between
\* ------------------------------------------------------------------------
subRegisterPure ==
    subRegisterAmong(ConstraintKinds, MaxSubRoutes, HandlerCount, MaxHandlers)

NextPure ==
    \/ RegisterConstraint
    \/ subRegisterPure
    \/ BeginConstraint
    \/ Global
    \/ Handlers
    \/ handleNotFound
    \/ handleError
    \/ Return

SpecPure == Init /\ [][NextPure]_vars

\* the routes of both routers
Compilations ==
    {routes[k] : k \in 1..Len(routes)} \cup {subRoutes[k] : k \in 1..Len(subRoutes)}

C29_NoMatchRunsNothing ==
    (pc # "idle" /\ route = 0) =>
        /\ pc \notin {"global", "route"}
        /\ \A c \in 1..Len(calls) : calls[c].role \in {"notFound", "error"}
        /\ \A c \in 1..Len(calls) : calls[c].role = "notFound" => c = 1

\* C29 witness: on a router with a route and a global middleware, a
\* request no route accepts has ended with the not-found handler as the
\* only function called
C29_Witness ==
    /\ pc = "done"
    /\ route = 0
    /\ routes # <<>>
    /\ globalMiddleware # <<>>
    /\ Len(calls) = 1
    /\ calls[1].handler = notFoundHandler
    /\ calls[1].role = "notFound"

\* ------------------------------------------------------------------------
\* Termination of handle. A function that was called returns or throws in
\* the end, and the runtime resumes handle when the promise it awaits is
\* settled: every step of a call of handle that can be taken is taken.
\* ------------------------------------------------------------------------
NextLive ==
    \/ Register
    \/ use
    \/ on404
    \/ onError
    \/ Begin
    \/ GlobalCall
    \/ GlobalAwait
    \/ HandlersCall
    \/ HandlersAwait
    \/ handleNotFound
    \/ handleError
    \/ Return

SpecLive ==
    /\ Init
    /\ [][NextLive]_vars
    /\ WF_vars(GlobalCall)
    /\ WF_vars(GlobalAwait)
    /\ WF_vars(HandlersCall)
    /\ WF_vars(HandlersAwait)
    /\ WF_vars(handleNotFound)
    /\ WF_vars(handleError)

\* the calls of the request made in the given role
CallsAs(role) == {c \in 1..Len(calls) : calls[c].role = role}

\* no middleware and no handler of the route is called twice, and the
\* not-found handler and the error handler are called at most once each
AtMostOnceEach ==
    /\ \A a \in 1..Len(calls), b \in 1..Len(calls) :
          (a # b /\ calls[a].role \in {"middleware", "handler"}
                 /\ calls[b].role \in {"middleware", "handler"})
              => calls[a].handler # calls[b].handler
    /\ Cardinality(CallsAs("notFound")) <= 1
    /\ Cardinality(CallsAs("error")) <= 1

\* a call of handle that has ended has given its caller one thing: a
\* Response, or the exception of the error handler
OneResult ==
    pc = "done" =>
        /\ result.kind \in {"response", "rejected"}
        /\ result.kind = "rejected" =>
              /\ calls # <<>>
              /\ calls[Len(calls)].role = "error"
              /\ calls[Len(calls)].outcome = "throw"

\* C30 as stated: every call of handle ends, with one result, having called
\* each middleware and handler at most once and at most one of the
\* not-found handler and the error handler.
C30_Original ==
    /\ [](AtMostOnceEach /\ OneResult)
    /\ [](CallsAs("notFound") = {} \/ CallsAs("error") = {})
    /\ (pc # "idle") ~> (pc = "done")

\* C30 amended: every call of handle ends, with one result, having called
\* each middleware and handler at most once, the not-found handler at most
\* once and the error handler at most once; both are called in one request
\* exactly when the not-found handler throws.
C30_Amended ==
    /\ [](AtMostOnceEach /\ OneResult)
    /\ []((CallsAs("notFound") # {} /\ CallsAs("error") # {}) =>
            \A c \in CallsAs("notFound") :
                /\ calls[c].outcome = "throw"
                /\ \A e \in CallsAs("error") : e = c + 1)
    /\ (pc # "idle") ~> (pc = "done")

\* C30 witness: a request has ended after a middleware, a handler, the
\* not-found handler, which threw, and the error handler were called
C30_Witness ==
    /\ pc = "done"
    /\ Len(calls) = 4
    /\ calls[1].role = "middleware"
    /\ calls[2].role = "handler"
    /\ calls[3].role = "notFound"
    /\ calls[3].outcome = "throw"
    /\ calls[4].role = "error"

\* ------------------------------------------------------------------------
\* rateLimit: the middleware made by rateLimit(options) count in
\* defaultStore, the one MemoryStore of the module
\* ------------------------------------------------------------------------
MaxNow == 4
MaxCalls == 3

Keys == {"ip1", "ip2"}

\* the middleware made by two calls of rateLimit: windowMs and max of each
Limiters ==
    {[id |-> 1, windowMs |-> 2, max |-> 1],
     [id |-> 2, windowMs |-> 3, max |-> 2]}

\* MemoryStore.get: an entry whose resetTime has passed is deleted
StoreGet(st, key, t) ==
    IF key \in DOMAIN st /\ st[key].resetTime < t
    THEN [k \in DOMAIN st \ {key} |-> st[k]]
    ELSE st

\* MemoryStore.set
StoreSet(st, key, count, resetTime) ==
    [k \in DOMAIN st \cup {key} |->
        IF k = key THEN [count |-> count, resetTime |-> resetTime] ELSE st[k]]

\* MemoryStore.increment: the store after the call
Increment(st, key, windowMs, t) ==
    LET Bump(got) ==
            IF key \notin DOMAIN got
            THEN StoreSet(got, key, 1, t + windowMs)
            ELSE StoreSet(got, key, got[key].count + 1, got[key].resetTime)
    IN  Bump(StoreGet(st, key, t))

\* the middleware of limiter l is called for a request of key k: what
\* increment returns decides between 429 and going on
rateLimit ==
    \E l \in Limiters, k \in Keys :
        /\ Len(invocations) < MaxCalls
        /\ store' = Increment(store, k, l.windowMs, now)
        /\ invocations' = Append(invocations,
              [limiter |-> l.id, key |-> k, at |-> now,
               count |-> store'[k].count,
               outcome |-> IF store'[k].count > l.max THEN "429" ELSE "continue"])
        /\ UNCHANGED <<kv, now>>
        /\ UNCHANGED <<routerVars, handleVars, concurrentVars, laterVars>>

\* time passes
Tick ==
    /\ now < MaxNow
    /\ now' = now + 1
    /\ UNCHANGED <<store, kv, invocations>>
    /\ UNCHANGED <<routerVars, handleVars, concurrentVars, laterVars>>

NextLimit ==
    \/ rateLimit
    \/ Tick

SpecLimit == Init /\ [][NextLimit]_vars

LimiterOf(id) == CHOOSE l \in Limiters : l.id = id

\* the number invocation i has in its window, counted as the claim counts:
\* over the invocations of the same limiter and key, the first opens a
\* window that ends at its time plus windowMs, and the first one after the
\* end of a window opens the next
RECURSIVE NumberInWindow(_, _, _, _)
NumberInWindow(i, j, reset, n) ==
    IF j > i
    THEN n
    ELSE IF invocations[j].limiter # invocations[i].limiter
              \/ invocations[j].key # invocations[i].key
    THEN NumberInWindow(i, j + 1, reset, n)
    ELSE IF n = 0 \/ invocations[j].at > reset
    THEN NumberInWindow(i, j + 1,
             invocations[j].at + LimiterOf(invocations[i].limiter).windowMs, 1)
    ELSE NumberInWindow(i, j + 1, reset, n + 1)

\* C26: of the requests of one key that reach a rateLimit middleware in one
\* window, the first max go on and every further one gets 429; the first
\* request after the reset time opens a new window and goes on.
C26_WindowLimit ==
    \A i \in 1..Len(invocations) :
        invocations[i].outcome =
            IF NumberInWindow(i, 1, 0, 0) <= LimiterOf(invocations[i].limiter).max
            THEN "continue"
            ELSE "429"

\* ------------------------------------------------------------------------
\* rateLimitKV: the count is read from the KV namespace with one await and
\* written back with another, and other requests run in between
\* ------------------------------------------------------------------------
KvLimiter == [id |-> 0, windowMs |-> 2, max |-> 1]

\* expirationTtl: Math.ceil(windowMs / 1000) seconds, in milliseconds
TtlMs(windowMs) == 1000 * ((windowMs + 999) \div 1000)

\* "const stored = await kv.get(kvKey)" and what follows up to the put: the
\* value read, Date.now(), and the count the middleware is going to store
rateLimitKVGet ==
    \E k \in Keys :
        /\ Len(invocations) < MaxCalls
        /\ LET live == k \in DOMAIN kv /\ now < kv[k].expires
               count == IF live /\ kv[k].resetTime > now
                        THEN kv[k].count + 1
                        ELSE 1
           IN  invocations' = Append(invocations,
                   [limiter |-> KvLimiter.id, key |-> k, at |-> now,
                    count |-> count, outcome |-> "pending"])
        /\ UNCHANGED <<store, kv, now>>
        /\ UNCHANGED <<routerVars, handleVars, concurrentVars, laterVars>>

\* "await kv.put(kvKey, JSON.stringify({ count, resetTime }), ...)" of
\* invocation i and the rest of the middleware: 429 when count > max
rateLimitKVPut ==
    \E i \in 1..Len(invocations) :
        /\ invocations[i].outcome = "pending"
        /\ kv' = [k \in DOMAIN kv \cup {invocations[i].key} |->
                    IF k = invocations[i].key
                    THEN [count |-> invocations[i].count,
                          resetTime |-> invocations[i].at + KvLimiter.windowMs,
                          expires |-> now + TtlMs(KvLimiter.windowMs)]
                    ELSE kv[k]]
        /\ invocations' = [invocations EXCEPT ![i].outcome =
                              IF invocations[i].count > KvLimiter.max
                              THEN "429"
                              ELSE "continue"]
        /\ UNCHANGED <<store, now>>
        /\ UNCHANGED <<routerVars, handleVars, concurrentVars, laterVars>>

NextKV ==
    \/ rateLimitKVGet
    \/ rateLimitKVPut
    \/ Tick

SpecKV == Init /\ [][NextKV]_vars

\* C27: of the requests of one key that rateLimitKV lets go on, no more
\* than max have their times within one window of windowMs milliseconds,
\* however the reads and writes of the requests in progress interleave.
C27_AtMostMaxPerWindow ==
    \A k \in Keys, t \in 0..MaxNow :
        Cardinality({i \in 1..Len(invocations) :
                        /\ invocations[i].key = k
                        /\ invocations[i].outcome = "continue"
                        /\ invocations[i].at \in t..(t + KvLimiter.windowMs - 1)})
            <= KvLimiter.max

\* ------------------------------------------------------------------------
\* auth: where the token is taken from
\* ------------------------------------------------------------------------
Null == "null"

\* values of the Authorization header, as authHeader.split(" ") gives them;
\* <<>> is a request without the header
AuthHeaders ==
    {<<>>, <<"Bearer", "good">>, <<"good">>, <<"Bearer", "bad">>, <<"bad">>}

\* what getCookie(request, cookieName) returns
Cookies == {Null, "good", "bad"}

AuthOptions ==
    [tokenSource : {"header", "cookie", "both"}, optional : BOOLEAN,
     onSuccess : {"absent", "returns", "throws"}]

\* verifyJWT resolves for the token "good" and rejects for any other
Verifies(token) == token = "good"

\* lines 38-52 of auth: the token the middleware goes on with
TokenOf(o, header, cookie) ==
    LET FromHeader ==
            IF o.tokenSource \in {"header", "both"} /\ header # <<>>
            THEN (IF Len(header) > 1 THEN header[2] ELSE header[1])
            ELSE Null
        Then(token) ==
            IF (token = Null /\ o.tokenSource = "cookie") \/ o.tokenSource = "both"
            THEN cookie
            ELSE token
    IN  Then(FromHeader)

\* lines 54-84 of auth: going on, with or without request.user, or throwing
\* UnauthorizedError
Authenticate(o, token) ==
    IF o.optional /\ token = Null
    THEN [kind |-> "continue", user |-> Null, message |-> ""]
    ELSE IF token = Null
    THEN [kind |-> "throw", user |-> Null, message |-> "Authentication required"]
    ELSE IF Verifies(token) /\ o.onSuccess # "throws"
    THEN [kind |-> "continue", user |-> "payload", message |-> ""]
    ELSE IF o.optional
    THEN [kind |-> "continue", user |-> Null, message |-> ""]
    ELSE [kind |-> "throw", user |-> Null, message |-> "Invalid token"]

\* the middleware made by auth(o) is called with a request; invocations
\* keeps the last call
auth ==
    \E o \in AuthOptions, header \in AuthHeaders, cookie \in Cookies :
        /\ invocations' = <<[options |-> o, header |-> header, cookie |-> cookie,
                             outcome |-> Authenticate(o, TokenOf(o, header, cookie))]>>
        /\ UNCHANGED <<store, kv, now>>
        /\ UNCHANGED <<routerVars, handleVars, concurrentVars, laterVars>>

NextAuth == auth

SpecAuth == Init /\ [][NextAuth]_vars

\* C28: with tokenSource "both", a request whose Authorization header
\* carries a valid token is authenticated whatever its cookies are, also
\* when it has no token cookie: the middleware goes on with the payload as
\* request.user.
C28_BothAcceptsHeader ==
    \A i \in 1..Len(invocations) :
        (/\ invocations[i].options.tokenSource = "both"
         /\ invocations[i].options.onSuccess # "throws"
         /\ invocations[i].header \in {<<"Bearer", "good">>, <<"good">>})
            => /\ invocations[i].outcome.kind = "continue"
               /\ invocations[i].outcome.user = "payload"

\* ------------------------------------------------------------------------
\* usePath: middleware for a path
\* ------------------------------------------------------------------------
\* Router.usePath(path, ...middleware): a route of method "*" whose handlers
\* are the middleware
usePath ==
    \E k \in RouteKinds, n \in 1..MaxChain :
        /\ pc = "idle"
        /\ HandlerCount + n <= MaxHandlers
        /\ CanAddRoute(routes, k.path)
        /\ routes' = addRoute(routes, "*", k.path,
                              [j \in 1..n |-> Fn("usePath", Len(routes) + 1, j)])
        /\ UNCHANGED <<globalMiddleware, notFoundHandler, errorHandler,
                       subRoutes, groups>>
        /\ UNCHANGED <<handleVars, concurrentVars, middlewareVars, laterVars>>

NextPath ==
    \/ usePath
    \/ Register
    \/ Begin
    \/ Global
    \/ Handlers
    \/ handleNotFound
    \/ handleError
    \/ Return

SpecPath == Init /\ [][NextPath]_vars

\* the route was made by usePath
IsPathMiddleware(r) == r.handlers[1].src = "usePath"

\* C31: when the middleware given to usePath for a path have all returned
\* nothing and a route registered afterwards for the same path takes the
\* method of the request, the request goes on to that route's handlers: it
\* does not end on the not-found path.
C31_PathMiddlewareThenRoute ==
    ~ /\ pc = "notFound"
      /\ route # 0
      /\ IsPathMiddleware(routes[route])
      /\ \E k \in (route + 1)..Len(routes) :
            /\ ~IsPathMiddleware(routes[k])
            /\ routes[k].path = routes[route].path
            /\ routes[k].method \in {request.method, "*"}

\* ------------------------------------------------------------------------
\* Groups side by side: groups made on the router or on any group, routes
\* registered through them and directly on the router, use on any group
\* ------------------------------------------------------------------------
SiblingCalls ==
    {[parent |-> p, prefix |-> x, n |-> 0] : p \in 0..Len(groups), x \in Prefixes}

groupSibling == groupAmong(SiblingCalls, MaxScopes, FunctionCount, MaxFunctions)

NextFrame ==
    \/ groupSibling
    \/ groupUseScoped
    \/ groupRegisterScoped
    \/ RegisterParent

SpecFrame == Init /\ [][NextFrame]_vars

\* a step of use on a group: the middleware list of a group has changed
GroupUseStep ==
    /\ Len(groups') = Len(groups)
    /\ groups' # groups

\* C32: a call of use on a group leaves the table of routes as it is and
\* adds one function at the end of the middleware list of that group only;
\* the lists of all other groups, those made from it included, stay the
\* same. The routes registered through the group afterwards start with
\* its list as it then is.
C32_GroupUseFrame ==
    [][/\ GroupUseStep =>
            /\ routes' = routes
            /\ \E g \in 1..Len(groups) :
                  /\ Len(groups'[g].groupMiddleware)
                        = Len(groups[g].groupMiddleware) + 1
                  /\ SubSeq(groups'[g].groupMiddleware, 1,
                            Len(groups[g].groupMiddleware))
                        = groups[g].groupMiddleware
                  /\ \A x \in 1..Len(groups) : x # g => groups'[x] = groups[x]
       /\ (Len(routes') = Len(routes) + 1
              /\ SuppliedTo(routes'[Len(routes')]).src = "groupRoute") =>
            /\ groups' = groups
            /\ SubSeq(routes', 1, Len(routes)) = routes
            /\ routes'[Len(routes')].handlers
                  = groups[SuppliedTo(routes'[Len(routes')]).i].groupMiddleware
                       \o <<SuppliedTo(routes'[Len(routes')])>>]_vars

\* C32 witness: a group has a group made from it; a route was registered
\* through the outer group, then use was called on the outer group, then a
\* second route was registered through it: the first route has the one
\* function passed to it, the second has the middleware in front, and the
\* inner group has no middleware
C32_Witness ==
    /\ Len(groups) = 2
    /\ groups[2].parent = 1
    /\ groups[2].groupMiddleware = <<>>
    /\ Len(groups[1].groupMiddleware) = 1
    /\ Len(routes) = 2
    /\ SuppliedTo(routes[1]).i = 1
    /\ Len(routes[1].handlers) = 1
    /\ SuppliedTo(routes[2]).i = 1
    /\ routes[2].handlers[1] = groups[1].groupMiddleware[1]

\* ------------------------------------------------------------------------
\* The second router has global middleware and fallback handlers of its own
\* ------------------------------------------------------------------------
\* use, on404 and onError called on the second router, once each: f is the
\* field set, unset what it holds before, and h what it holds after
subSet(f, unset, h) ==
    /\ pc = "idle"
    /\ subRouter[f] = unset
    /\ subRouter' = [subRouter EXCEPT ![f] = h]
    /\ UNCHANGED <<mounting, database, runner>>
    /\ UNCHANGED <<routerVars, handleVars, concurrentVars, middlewareVars>>

subUse == subSet("globalMiddleware", <<>>, <<Fn("subUse", 0, 1)>>)

subOn404 == subSet("notFoundHandler", NoHandler, Fn("subOn404", 0, 1))

subOnError == subSet("errorHandler", NoHandler, Fn("subOnError", 0, 1))

NextCarry ==
    \/ subRegisterMounted
    \/ subUse
    \/ subOn404
    \/ subOnError
    \/ onError
    \/ mountMounted
    \/ BeginMounted
    \/ Global
    \/ Handlers
    \/ handleNotFound
    \/ handleError
    \/ Return

SpecCarry == Init /\ [][NextCarry]_vars

\* the functions given to use, on404 and onError of the second router
OfSubRouter(h) == h.src \in {"subUse", "subOn404", "subOnError"}

\* C33: a request handled by the first router never calls a function given
\* to use, on404 or onError of the second router, and when a handler of a
\* mounted route has thrown, the answer is that of the first router's error
\* handler, or the default 500 when it has none or it returns nothing.
C33_MountCopiesOnlyRoutes ==
    /\ \A c \in 1..Len(calls) : ~OfSubRouter(calls[c].handler)
    /\ ~OfSubRouter(notFoundHandler) /\ ~OfSubRouter(errorHandler)
    /\ \A k \in 1..Len(globalMiddleware) : ~OfSubRouter(globalMiddleware[k])
    /\ (pc = "done" /\ error # NoThrow /\ result.kind = "response") =>
          \/ result.response = DefaultError(error)
          \/ /\ errorHandler # NoHandler
             /\ result.response = ResponseOf(errorHandler)

\* C33 witness: the second router has a middleware and an error handler of
\* its own, a handler of a mounted route has thrown, and the error handler
\* of the first router has answered; nothing else was called
C33_Witness ==
    /\ pc = "done"
    /\ subRouter.globalMiddleware # <<>>
    /\ subRouter.errorHandler # NoHandler
    /\ route # 0
    /\ IsMounted(routes[route])
    /\ Len(calls) = 2
    /\ calls[1].role = "handler"
    /\ calls[1].outcome = "throw"
    /\ calls[2].handler = errorHandler
    /\ result.response = ResponseOf(errorHandler)

\* ------------------------------------------------------------------------
\* use(path, router) turn by turn: the loop "for (const route of
\* router.routes)" looks at the length of the array at every turn
\* ------------------------------------------------------------------------
\* the array the loop of the mount in progress goes over
Source == IF mounting.from = "self" THEN routes ELSE subRoutes

RegisterIdle == mounting.from = "none" /\ RegisterParent

subRegisterIdle == mounting.from = "none" /\ subRegisterMounted

\* use(prefix, router) is called with the second router or with the router
\* itself
mountBegin ==
    \E from \in {"sub", "self"}, prefix \in Prefixes :
        /\ pc = "idle"
        /\ mounting.from = "none"
        /\ mounting' = [from |-> from, k |-> 1, prefix |-> prefix, added |-> 0,
                        held |-> IF from = "self" THEN Len(routes)
                                 ELSE Len(subRoutes)]
        /\ UNCHANGED <<subRouter, database, runner>>
        /\ UNCHANGED <<routerVars, handleVars, concurrentVars, middlewareVars>>

\* one turn of the loop, lines 234-237, or its end; the table of the model
\* takes MaxTable routes
mountTurn ==
    /\ mounting.from # "none"
    /\ IF mounting.k <= Len(Source)
       THEN /\ Len(routes) < MaxTable
            /\ routes' = addRoute(routes, Source[mounting.k].method,
                                  mounting.prefix \o Source[mounting.k].path,
                                  Source[mounting.k].handlers)
            /\ mounting' = [mounting EXCEPT !.k = @ + 1, !.added = @ + 1]
       ELSE /\ mounting' = NotMounting
            /\ UNCHANGED routes
    /\ UNCHANGED <<globalMiddleware, notFoundHandler, errorHandler, subRoutes,
                   groups>>
    /\ UNCHANGED <<subRouter, database, runner>>
    /\ UNCHANGED <<handleVars, concurrentVars, middlewareVars>>

NextSelf ==
    \/ RegisterIdle
    \/ subRegisterIdle
    \/ mountBegin
    \/ mountTurn

SpecSelf == Init /\ [][NextSelf]_vars

\* C34: a call use(prefix, S) never appends more routes than S held when
\* the call began, and when its loop is over it has appended exactly that
\* many, also when S is the router itself.
C34_MountAppendsWhatWasHeld ==
    mounting.from # "none" =>
        /\ mounting.added <= mounting.held
        /\ mounting.k > Len(Source) => mounting.added = mounting.held

\* ------------------------------------------------------------------------
\* one stream of requests, one after another, given both to a rateLimit
\* middleware with a store of its own and to a rateLimitKV middleware with
\* the same windowMs and max
\* ------------------------------------------------------------------------
BothLimiter == [id |-> 3, windowMs |-> 3, max |-> 1]

\* a request of key k at the time now: MemoryStore.increment on one side,
\* kv.get, the count and kv.put of rateLimitKV on the other, with no other
\* request in between
rateLimitBoth ==
    \E k \in Keys :
        /\ Len(invocations) < MaxCalls
        /\ store' = Increment(store, k, BothLimiter.windowMs, now)
        /\ LET live == k \in DOMAIN kv /\ now < kv[k].expires
               count == IF live /\ kv[k].resetTime > now
                        THEN kv[k].count + 1
                        ELSE 1
           IN  /\ kv' = [q \in DOMAIN kv \cup {k} |->
                           IF q = k
                           THEN [count |-> count,
                                 resetTime |-> now + BothLimiter.windowMs,
                                 expires |-> now + TtlMs(BothLimiter.windowMs)]
                           ELSE kv[q]]
               /\ invocations' = Append(invocations,
                     [limiter |-> BothLimiter.id, key |-> k, at |-> now,
                      count |-> store'[k].count,
                      outcome |-> IF store'[k].count > BothLimiter.max
                                  THEN "429" ELSE "continue",
                      kvCount |-> count,
                      kvOutcome |-> IF count > BothLimiter.max
                                    THEN "429" ELSE "continue"])
        /\ UNCHANGED now
        /\ UNCHANGED <<routerVars, handleVars, concurrentVars, laterVars>>

NextBoth ==
    \/ rateLimitBoth
    \/ Tick

SpecBoth == Init /\ [][NextBoth]_vars

\* C35: on every stream of requests of one key that arrive one after
\* another, rateLimitKV and the in-memory rateLimit with the same windowMs
\* and max take the same decision for every request.
C35_SameDecisions ==
    \A i \in 1..Len(invocations) :
        invocations[i].outcome = invocations[i].kvOutcome

\* C35, away from the instant the window ends: the decisions are the same
\* for every request that does not arrive exactly windowMs after a request
\* of its key
C35_SameDecisionsOffBoundary ==
    \A i \in 1..Len(invocations) :
        (\A j \in 1..(i - 1) :
            invocations[j].key = invocations[i].key
            => \A h \in j..i : invocations[h].key = invocations[i].key
                   => invocations[h].at # invocations[j].at + BothLimiter.windowMs)
        => invocations[i].outcome = invocations[i].kvOutcome

\* ------------------------------------------------------------------------
\* A plain ":name" written more than once in a route path
\* ------------------------------------------------------------------------
RepeatPaths ==
    {Slash \o Plain(NameX) \o Slash \o Plain(NameX),
     Slash \o Plain(NameX) \o Slash \o Plain(NameY),
     Slash \o Plain(NameX) \o Slash \o Plain(NameX) \o Slash \o Plain(NameY),
     Slash \o Plain(NameY) \o Slash \o Plain(NameX) \o Slash \o Plain(NameX)}

RepeatPathnames ==
    {<<"/", "1", "/", "2">>, <<"/", "2", "/", "2">>, <<"/", "1">>,
     <<"/", "1", "/", "2", "/", "3">>, <<"/", "3", "/", "3", "/", "1">>}

CompileRepeat == CompileAmong(RepeatPaths)

BeginRepeat ==
    BeginWith({[method |-> "GET", pathname |-> p] : p \in RepeatPathnames})

NextRepeat ==
    \/ CompileRepeat
    \/ BeginRepeat
    \/ Global
    \/ Handlers
    \/ handleNotFound
    \/ handleError
    \/ Return

SpecRepeat == Init /\ [][NextRepeat]_vars

\* the place of the first segment ":name" in the segments of a route path
FirstPlace(segs, name) == SetMin({k \in 1..Len(segs) : segs[k] = Plain(name)})

\* C36: when a plain ":name" is written more than once in the path of the
\* matched route, paramNames holds the name once, and params gives every
\* name of the route the segment of the request path at the place where
\* that name is first written.
C36_RepeatedNameFirstPlace ==
    (route # 0 /\ pc \in {"global", "route"}) =>
        LET Holds(segs, given) ==
                /\ \A i, j \in 1..Len(routes[route].paramNames) :
                       routes[route].paramNames[i] = routes[route].paramNames[j]
                       => i = j
                /\ DOMAIN params[1] = {NameOf(segs[k]) : k \in 1..Len(segs)}
                /\ \A n \in DOMAIN params[1] :
                       params[1][n] = given[FirstPlace(segs, n)]
        IN  Holds(SegmentsOf(routes[route].path), SegmentsOf(request.pathname))

\* ------------------------------------------------------------------------
\* MigrationRunner: calls of up and down, one after another, on one D1
\* database. database.recorded is the set of names in the table
\* _migrations, database.applied the migrations whose up body has succeeded
\* and whose down body has not succeeded since. runner is the call in
\* progress or the last call: its list, the place of its loop, the names
\* recorded when it began, and the bodies it ran.
\* ------------------------------------------------------------------------
MaxList == 2

MigrationNames == {"001", "002"}

RECURSIVE ListsOf(_)
ListsOf(n) ==
    IF n = 0
    THEN {<<>>}
    ELSE LET shorter == ListsOf(n - 1)
         IN  shorter \cup {Append(l, m) : l \in shorter, m \in MigrationNames}

MigrationLists == ListsOf(MaxList) \ {<<>>}

\* Mutant of Existing: the SELECT finds no row
ExistingNever(name) == FALSE

\* "SELECT id FROM _migrations WHERE name = ?" ... first(): a row or null
Existing(name) == name \in database.recorded

\* the constructor calls initMigrationsTable without awaiting it: the table
\* is there once the exec has been carried out
initMigrationsTable ==
    /\ ~database.ready
    /\ database' = [database EXCEPT !.ready = TRUE]
    /\ UNCHANGED <<subRouter, mounting, runner>>
    /\ UNCHANGED <<routerVars, handleVars, concurrentVars, middlewareVars>>

\* runner.up(list) or runner.down(list) is called when no call is running
upOrDown ==
    \E call \in {"up", "down"}, list \in MigrationLists :
        /\ runner.status # "running"
        /\ runner' = [call |-> call, status |-> "running", list |-> list,
                      i |-> IF call = "up" THEN 1 ELSE Len(list),
                      held |-> database.recorded, ran |-> <<>>]
        /\ UNCHANGED <<subRouter, mounting, database>>
        /\ UNCHANGED <<routerVars, handleVars, concurrentVars, middlewareVars>>

\* one turn of the loop of up, or its end. The SELECT rejects while the
\* table is not there; migration.up(database) succeeds or throws
upTurn ==
    /\ runner.call = "up"
    /\ runner.status = "running"
    /\ IF runner.i > Len(runner.list)
       THEN /\ runner' = [runner EXCEPT !.status = "returned"]
            /\ UNCHANGED database
       ELSE IF ~database.ready
       THEN /\ runner' = [runner EXCEPT !.status = "thrown"]
            /\ UNCHANGED database
       ELSE IF Existing(runner.list[runner.i])
       THEN /\ runner' = [runner EXCEPT !.i = @ + 1]
            /\ UNCHANGED database
       ELSE \E ok \in BOOLEAN :
            LET name == runner.list[runner.i]
                body == [i |-> runner.i, ok |-> ok,
                         applied |-> name \in database.applied]
            IN  IF ok
                THEN /\ database' = [database EXCEPT
                                        !.applied = @ \cup {name},
                                        !.recorded = @ \cup {name}]
                     /\ runner' = [runner EXCEPT !.i = @ + 1,
                                                 !.ran = Append(@, body)]
                ELSE /\ runner' = [runner EXCEPT !.status = "thrown",
                                                 !.ran = Append(@, body)]
                     /\ UNCHANGED database
    /\ UNCHANGED <<subRouter, mounting>>
    /\ UNCHANGED <<routerVars, handleVars, concurrentVars, middlewareVars>>

\* one turn of the loop of down, from the end of the list, or its end
downTurn ==
    /\ runner.call = "down"
    /\ runner.status = "running"
    /\ IF runner.i < 1
       THEN /\ runner' = [runner EXCEPT !.status = "returned"]
            /\ UNCHANGED database
       ELSE IF ~database.ready
       THEN /\ runner' = [runner EXCEPT !.status = "thrown"]
            /\ UNCHANGED database
       ELSE IF ~Existing(runner.list[runner.i])
       THEN /\ runner' = [runner EXCEPT !.i = @ - 1]
            /\ UNCHANGED database
       ELSE \E ok \in BOOLEAN :
            LET name == runner.list[runner.i]
                body == [i |-> runner.i, ok |-> ok,
                         applied |-> name \in database.applied]
            IN  IF ok
                THEN /\ database' = [database EXCEPT
                                        !.applied = @ \ {name},
                                        !.recorded = @ \ {name}]
                     /\ runner' = [runner EXCEPT !.i = @ - 1,
                                                 !.ran = Append(@, body)]
                ELSE /\ runner' = [runner EXCEPT !.status = "thrown",
                                                 !.ran = Append(@, body)]
                     /\ UNCHANGED database
    /\ UNCHANGED <<subRouter, mounting>>
    /\ UNCHANGED <<routerVars, handleVars, concurrentVars, middlewareVars>>

NextMigrations ==
    \/ initMigrationsTable
    \/ upOrDown
    \/ upTurn
    \/ downTurn

SpecMigrations == Init /\ [][NextMigrations]_vars

\* the places of the list the loop of the call has gone past
Visited ==
    IF runner.call = "up"
    THEN 1..(runner.i - 1)
    ELSE (runner.i + 1)..Len(runner.list)

\* the names whose body the call had run with success before it came to
\* place j
DoneBefore(j) ==
    {runner.list[runner.ran[e].i] :
        e \in {d \in 1..Len(runner.ran) :
                  /\ runner.ran[d].ok
                  /\ IF runner.call = "up"
                     THEN runner.ran[d].i < j
                     ELSE runner.ran[d].i > j}}

====
